---------------------------- MODULE Spec2Model ----------------------------
(***************************************************************************)
(* A model of mcsema's instruction lifter (mcsema/BC/Instruction.cpp) and  *)
(* of its module optimizer (mcsema/BC/Optimize.cpp).                       *)
(*                                                                         *)
(* The lifter is modelled one operand-lift call at a time; the optimizer   *)
(* one stage of OptimizeModule at a time, the ISEL removal loop one scan   *)
(* at a time.  LLVM values are records; a pointer that may be null is the  *)
(* record NULL.                                                            *)
(***************************************************************************)
EXTENDS Integers, Sequences, FiniteSets, TLC

VARIABLES
  \* ---- InstructionLifter: inputs
  cfg_inst,        \* ctx.cfg_inst: NULL or the CFG entry of the instruction
  inst,            \* the remill::Instruction being lifted
  ops0,            \* history: the operands as they were decoded
  \* ---- InstructionLifter: members
  mem_ref, imm_ref, disp_ref,
  mem_ref_used, imm_ref_used, disp_ref_used,
  \* ---- InstructionLifter: position and outputs
  lpc,             \* "start", "delegate", "post", "done", "fatal"
  op_idx,          \* next operand the delegated lift hands to LiftOperand
  args,            \* the values handed to the semantics, one per operand
  status,          \* the status the delegated lift returned
  lift_log,        \* LOG(ERROR) / LOG(WARNING) lines, in order
  \* ---- gModule
  funcs,           \* the functions of the module, by name
  globals,         \* the global variables of the module, by name
  consts,          \* constant expressions and aggregates, by id
  insts,           \* the instructions of the module, by id
  \* ---- OptimizeModule: position and outputs
  opc,             \* index of the next stage in OptimizeModuleStages
  halt,            \* "", or how the process ended: "aborted", "crashed"
  isels,           \* the vector FindISELs returned, as RemoveISELs holds it
  dead_stores,     \* history: the dead_stores of each ReplaceUndefIntrinsic
  pre,             \* history: the module as the last step found it
  step,            \* history: the last step, "" when there is none
  trace            \* history: the calls of OptimizeModule that returned

liftVars == <<cfg_inst, inst, ops0, mem_ref, imm_ref, disp_ref, mem_ref_used,
              imm_ref_used, disp_ref_used, lpc, op_idx, args, status,
              lift_log>>

optVars == <<funcs, globals, consts, insts, opc, halt, isels, dead_stores, pre,
             step, trace>>

vars == <<liftVars, optVars>>

----------------------------------------------------------------------------
(* Bounds of the model.                                                    *)

\* Operands per instruction.
MaxOps == 2

\* uint64_t arithmetic is modelled modulo 2^WordBits.
WordBits == 16

----------------------------------------------------------------------------
(* Values.                                                                 *)

NULL == [kind |-> "null"]

\* arch->address_size, in bits.
address_size == 16

RECURSIVE Pow2(_)
Pow2(n) == IF n = 0 THEN 1 ELSE 2 * Pow2(n - 1)

\* a & b on unsigned integers.
RECURSIVE BitAnd(_, _)
BitAnd(a, b) ==
  IF a = 0 \/ b = 0 THEN 0
  ELSE (a % 2) * (b % 2) + 2 * BitAnd(a \div 2, b \div 2)

\* static_cast<uint64_t>(int64_t).
static_cast_uint64(d) == d % Pow2(WordBits)

\* The address of `ea` in the lifted module, as a value of the address type.
LiftXrefInCode(ea) == [kind |-> "xref", val |-> ea, bits |-> address_size]

\* llvm::IRBuilder::CreateTrunc to an integer type of `bits` bits.
CreateTrunc(v, bits) ==
  [kind |-> "trunc", of |-> v, val |-> v.val % Pow2(bits), bits |-> bits]

\* llvm::IRBuilder::CreateAdd.
CreateAdd(a, b) == [kind |-> "add", lhs |-> a, rhs |-> b]

\* remill::InstructionLifter::LiftImmediateOperand: the raw immediate.
GenericLiftImmediateOperand(op) ==
  [kind |-> "imm", val |-> op.imm_val, bits |-> op.arg_size]

\* remill::InstructionLifter::LiftAddressOperand: base + index + displacement
\* computed from the operand's fields as they are at the call.
GenericLiftAddressOperand(op) ==
  [kind |-> "addr", base |-> op.base_reg, index |-> op.index_reg,
   disp |-> op.displacement]

----------------------------------------------------------------------------
(* The CFG model the lifter reads.                                         *)

\* The segments of ctx.cfg_module.
cfg_segments == {[ea |-> 4096, size |-> 64]}

\* NativeModule::TryGetSegment: the segment that contains `ea`, or NULL.
TryGetSegment(ea) ==
  IF \E s \in cfg_segments : s.ea <= ea /\ ea < s.ea + s.size
  THEN CHOOSE s \in cfg_segments : s.ea <= ea /\ ea < s.ea + s.size
  ELSE NULL

\* Target addresses of cross-references: one inside the segment, and the
\* unsigned image of the displacement -16.
TargetEAs == {4112, Pow2(WordBits) - 16}

\* NativeInstructionXref::mask; 0 is "no mask".
Masks == {0, 4095}

NativeInstructionXrefs ==
  {[kind |-> "NativeInstructionXref", target_ea |-> e, mask |-> m] :
     e \in TargetEAs, m \in Masks}

\* A NativeInstruction with its mem, imm and disp cross-references.
NativeInstructions ==
  {[kind |-> "NativeInstruction", mem |-> m, imm |-> i, disp |-> d] :
     m \in {NULL} \cup NativeInstructionXrefs,
     i \in {NULL} \cup {x \in NativeInstructionXrefs : x.target_ea = 4112},
     d \in {NULL} \cup {x \in NativeInstructionXrefs :
                          x.target_ea = 4112 /\ x.mask = 0}}

----------------------------------------------------------------------------
(* The decoded instruction.                                                *)

Operand(type, size, arg_size, imm_val, kind, base, index, disp) ==
  [type |-> type, size |-> size, arg_size |-> arg_size, imm_val |-> imm_val,
   kind |-> kind, base_reg |-> base, index_reg |-> index,
   displacement |-> disp]

RegisterOperands == {Operand("reg", address_size, address_size, 0, "", "RAX", "", 0)}

\* Immediates narrower than, as wide as and wider than an address; the raw
\* value 4112 lies in a segment, 4200 lies in none.
ImmediateOperands ==
  {Operand("imm", address_size \div 2, address_size \div 2, 5, "", "", "", 0),
   Operand("imm", address_size \div 2, address_size, 5, "", "", "", 0),
   Operand("imm", address_size, address_size, 5, "", "", "", 0),
   Operand("imm", address_size, address_size, 4112, "", "", "", 0),
   Operand("imm", address_size, address_size, 4200, "", "", "", 0),
   Operand("imm", 2 * address_size, 2 * address_size, 5, "", "", "", 0)}

\* Address operands: a branch target; absolute, PC-relative and
\* NEXT_PC-relative data operands; and base and/or index forms.
AddressOperands ==
  {Operand("addr", address_size, address_size, 0, "kControlFlowTarget", "PC", "", 4112)}
  \cup {Operand("addr", address_size, address_size, 0, "kMemoryRead", b, "", 4112) :
          b \in {"", "PC", "NEXT_PC"}}
  \cup {Operand("addr", address_size, address_size, 0, "kMemoryWrite", f[1], f[2], f[3]) :
          f \in {<<"RAX", "", 4112>>, <<"RAX", "", 8>>,
                 <<"", "RCX", -16>>, <<"PC", "RCX", 4112>>}}

Operands == RegisterOperands \cup ImmediateOperands \cup AddressOperands

RECURSIVE SeqsUpTo(_, _)
SeqsUpTo(S, n) ==
  IF n = 0 THEN {<<>>}
  ELSE LET shorter == SeqsUpTo(S, n - 1)
       IN shorter \cup {Append(s, x) : s \in {t \in shorter : Len(t) = n - 1}, x \in S}

\* `sem` is what the delegated lift finds for the instruction: semantics
\* ("ok"), an invalid encoding, or no semantics function.
Instructions ==
  {[operands |-> ops, sem |-> "ok"] : ops \in SeqsUpTo(Operands, MaxOps)}
  \cup {[operands |-> ops, sem |-> s] :
          ops \in SeqsUpTo(Operands, 1),
          s \in {"invalid", "unsupported"}}

kLiftedInstruction == "kLiftedInstruction"
kLiftedInvalidInstruction == "kLiftedInvalidInstruction"
kLiftedUnsupportedInstruction == "kLiftedUnsupportedInstruction"

----------------------------------------------------------------------------
(* InstructionLifter.                                                      *)

\* GetAddress that never applies the mask.
GetAddress_Unmasked(cfg_xref) ==
  IF cfg_xref = NULL THEN NULL
  ELSE LiftXrefInCode(cfg_xref.target_ea)

\* InstructionLifter::GetAddress.
GetAddress(cfg_xref) ==
  IF cfg_xref = NULL THEN NULL
  ELSE IF cfg_xref.mask # 0
       THEN LiftXrefInCode(BitAnd(cfg_xref.target_ea, cfg_xref.mask))
       ELSE LiftXrefInCode(cfg_xref.target_ea)

\* What an operand-lift call returns and the members it leaves behind.
LiftResult(ret, fatal, immr, immu, memu, dispu, op, log) ==
  [ret |-> ret, fatal |-> fatal, imm_ref |-> immr, imm_ref_used |-> immu,
   mem_ref_used |-> memu, disp_ref_used |-> dispu, op |-> op, log |-> log]

\* LiftImmediateOperand without the truncation of a narrower operand.
LiftImmediateOperand_NoTrunc(op) ==
  IF imm_ref # NULL /\ ~imm_ref_used
  THEN IF ~(op.arg_size <= address_size)
       THEN LiftResult(NULL, TRUE, imm_ref, TRUE, mem_ref_used,
                       disp_ref_used, op, <<>>)
       ELSE LiftResult(imm_ref, FALSE, imm_ref, TRUE, mem_ref_used,
                       disp_ref_used, op, <<>>)
  ELSE LiftResult(GenericLiftImmediateOperand(op), FALSE, imm_ref,
                  imm_ref_used, mem_ref_used, disp_ref_used, op, <<>>)

\* LiftImmediateOperand without the CHECK on the width of the argument type.
LiftImmediateOperand_NoCheck(op) ==
  IF imm_ref # NULL /\ ~imm_ref_used
  THEN LET r == IF op.arg_size # imm_ref.bits /\ op.arg_size < address_size
                THEN CreateTrunc(imm_ref, op.arg_size)
                ELSE imm_ref
       IN LiftResult(r, FALSE, r, TRUE, mem_ref_used, disp_ref_used,
                     op, <<>>)
  ELSE LiftResult(GenericLiftImmediateOperand(op), FALSE, imm_ref,
                  imm_ref_used, mem_ref_used, disp_ref_used, op,
                  IF /\ op.size = address_size
                     /\ 4096 <= op.imm_val
                     /\ TryGetSegment(op.imm_val) # NULL
                  THEN <<"missed cross-reference candidate">>
                  ELSE <<>>)

\* LiftImmediateOperand that takes a missed cross-reference candidate for a
\* use of the immediate reference.
LiftImmediateOperand_MissedMarksUsed(op) ==
  IF imm_ref # NULL /\ ~imm_ref_used
  THEN IF ~(op.arg_size <= address_size)
       THEN LiftResult(NULL, TRUE, imm_ref, TRUE, mem_ref_used,
                       disp_ref_used, op, <<>>)
       ELSE LET r == IF op.arg_size # imm_ref.bits /\ op.arg_size < address_size
                     THEN CreateTrunc(imm_ref, op.arg_size)
                     ELSE imm_ref
            IN LiftResult(r, FALSE, r, TRUE, mem_ref_used, disp_ref_used,
                          op, <<>>)
  ELSE IF /\ op.size = address_size
          /\ 4096 <= op.imm_val
          /\ TryGetSegment(op.imm_val) # NULL
  THEN LiftResult(GenericLiftImmediateOperand(op), FALSE, imm_ref,
                  TRUE, mem_ref_used, disp_ref_used, op,
                  <<"missed cross-reference candidate">>)
  ELSE LiftResult(GenericLiftImmediateOperand(op), FALSE, imm_ref,
                  imm_ref_used, mem_ref_used, disp_ref_used, op, <<>>)

\* InstructionLifter::LiftImmediateOperand.
LiftImmediateOperand(op) ==
  IF imm_ref # NULL /\ ~imm_ref_used
  THEN IF ~(op.arg_size <= address_size)
       THEN \* CHECK fails: the process aborts.
            LiftResult(NULL, TRUE, imm_ref, TRUE, mem_ref_used,
                       disp_ref_used, op, <<>>)
       ELSE LET r == IF op.arg_size # imm_ref.bits /\ op.arg_size < address_size
                     THEN CreateTrunc(imm_ref, op.arg_size)
                     ELSE imm_ref
            IN LiftResult(r, FALSE, r, TRUE, mem_ref_used, disp_ref_used,
                          op, <<>>)
  ELSE LiftResult(GenericLiftImmediateOperand(op), FALSE, imm_ref,
                  imm_ref_used, mem_ref_used, disp_ref_used, op,
                  IF /\ op.size = address_size
                     /\ 4096 <= op.imm_val
                     /\ TryGetSegment(op.imm_val) # NULL
                  THEN <<"missed cross-reference candidate">>
                  ELSE <<>>)

\* DirectReference that substitutes a reference only while it is unused.
DirectReference_OnlyUnused(op) ==
  IF mem_ref # NULL /\ ~mem_ref_used
  THEN LiftResult(mem_ref, FALSE, imm_ref, imm_ref_used, TRUE,
                  disp_ref_used, op, <<>>)
  ELSE IF disp_ref # NULL /\ ~disp_ref_used
  THEN LiftResult(disp_ref, FALSE, imm_ref, imm_ref_used, mem_ref_used,
                  TRUE, op, <<>>)
  ELSE LiftResult(GenericLiftAddressOperand(op), FALSE, imm_ref,
                  imm_ref_used, mem_ref_used, disp_ref_used, op, <<>>)

\* DirectReference that marks the displacement reference used along with
\* the memory reference it returns.
DirectReference_BothFlags(op) ==
  IF mem_ref # NULL
  THEN LiftResult(mem_ref, FALSE, imm_ref, imm_ref_used, TRUE,
                  disp_ref # NULL \/ disp_ref_used, op, <<>>)
  ELSE IF disp_ref # NULL
  THEN LiftResult(disp_ref, FALSE, imm_ref, imm_ref_used, mem_ref_used,
                  TRUE, op, <<>>)
  ELSE LiftResult(GenericLiftAddressOperand(op), FALSE, imm_ref,
                  imm_ref_used, mem_ref_used, disp_ref_used, op, <<>>)

\* The two branches of LiftAddressOperand that return a reference directly.
DirectReference(op) ==
  IF mem_ref # NULL
  THEN LiftResult(mem_ref, FALSE, imm_ref, imm_ref_used, TRUE,
                  disp_ref_used, op, <<>>)
  ELSE IF disp_ref # NULL
  THEN LiftResult(disp_ref, FALSE, imm_ref, imm_ref_used, mem_ref_used,
                  TRUE, op, <<>>)
  ELSE LiftResult(GenericLiftAddressOperand(op), FALSE, imm_ref,
                  imm_ref_used, mem_ref_used, disp_ref_used, op, <<>>)

\* DisplacementReference that forgets to mark the reference used.
DisplacementReference_NoFlag(op) ==
  LET zeroed == [op EXCEPT !.displacement = 0] IN
  IF disp_ref # NULL
  THEN LiftResult(CreateAdd(GenericLiftAddressOperand(zeroed), disp_ref),
                  FALSE, imm_ref, imm_ref_used, mem_ref_used, disp_ref_used,
                  zeroed, <<>>)
  ELSE IF /\ mem_ref # NULL
          /\ static_cast_uint64(op.displacement) = cfg_inst.mem.target_ea
  THEN LiftResult(CreateAdd(GenericLiftAddressOperand(zeroed), mem_ref),
                  FALSE, imm_ref, imm_ref_used, mem_ref_used, disp_ref_used,
                  zeroed,
                  <<"IDA probably incorrectly decoded memory operand">>)
  ELSE LiftResult(GenericLiftAddressOperand(op), FALSE, imm_ref,
                  imm_ref_used, mem_ref_used, disp_ref_used, op, <<>>)

\* DisplacementReference that keeps the displacement when it adds the
\* reference.
DisplacementReference_KeepDisp(op) ==
  IF disp_ref # NULL
  THEN LiftResult(CreateAdd(GenericLiftAddressOperand(op), disp_ref),
                  FALSE, imm_ref, imm_ref_used, mem_ref_used, TRUE, op,
                  <<>>)
  ELSE IF /\ mem_ref # NULL
          /\ static_cast_uint64(op.displacement) = cfg_inst.mem.target_ea
  THEN LiftResult(CreateAdd(GenericLiftAddressOperand(op), mem_ref),
                  FALSE, imm_ref, imm_ref_used, TRUE, disp_ref_used, op,
                  <<"IDA probably incorrectly decoded memory operand">>)
  ELSE LiftResult(GenericLiftAddressOperand(op), FALSE, imm_ref,
                  imm_ref_used, mem_ref_used, disp_ref_used, op, <<>>)

\* DisplacementReference that tries the memory reference before the
\* displacement reference.
DisplacementReference_MemFirst(op) ==
  LET zeroed == [op EXCEPT !.displacement = 0] IN
  IF /\ mem_ref # NULL
     /\ static_cast_uint64(op.displacement) = cfg_inst.mem.target_ea
  THEN LiftResult(CreateAdd(GenericLiftAddressOperand(zeroed), mem_ref),
                  FALSE, imm_ref, imm_ref_used, TRUE, disp_ref_used, zeroed,
                  <<"IDA probably incorrectly decoded memory operand">>)
  ELSE IF disp_ref # NULL
  THEN LiftResult(CreateAdd(GenericLiftAddressOperand(zeroed), disp_ref),
                  FALSE, imm_ref, imm_ref_used, mem_ref_used, TRUE, zeroed,
                  <<>>)
  ELSE LiftResult(GenericLiftAddressOperand(op), FALSE, imm_ref,
                  imm_ref_used, mem_ref_used, disp_ref_used, op, <<>>)

\* The last branch of LiftAddressOperand: the reference is in the
\* displacement of a base/index operand.
DisplacementReference(op) ==
  LET zeroed == [op EXCEPT !.displacement = 0] IN
  IF disp_ref # NULL
  THEN LiftResult(CreateAdd(GenericLiftAddressOperand(zeroed), disp_ref),
                  FALSE, imm_ref, imm_ref_used, mem_ref_used, TRUE, zeroed,
                  <<>>)
  ELSE IF /\ mem_ref # NULL
          /\ static_cast_uint64(op.displacement) = cfg_inst.mem.target_ea
  THEN LiftResult(CreateAdd(GenericLiftAddressOperand(zeroed), mem_ref),
                  FALSE, imm_ref, imm_ref_used, TRUE, disp_ref_used, zeroed,
                  <<"IDA probably incorrectly decoded memory operand">>)
  ELSE LiftResult(GenericLiftAddressOperand(op), FALSE, imm_ref,
                  imm_ref_used, mem_ref_used, disp_ref_used, op, <<>>)

\* LiftAddressOperand that treats a control-flow target like a data operand.
LiftAddressOperand_TargetAsData(op) ==
  IF \/ (op.base_reg = "" /\ op.index_reg = "")
     \/ (op.base_reg = "PC" /\ op.index_reg = "")
  THEN DirectReference(op)
  ELSE IF \/ (op.base_reg = "" /\ op.index_reg = "")
          \/ (op.base_reg = "NEXT_PC" /\ op.index_reg = "")
  THEN DirectReference(op)
  ELSE DisplacementReference(op)

\* LiftAddressOperand without the NEXT_PC branch.
LiftAddressOperand_NoNextPC(op) ==
  IF op.kind = "kControlFlowTarget"
  THEN LiftResult(GenericLiftAddressOperand(op), FALSE, imm_ref,
                  imm_ref_used, mem_ref_used, disp_ref_used, op, <<>>)
  ELSE IF \/ (op.base_reg = "" /\ op.index_reg = "")
          \/ (op.base_reg = "PC" /\ op.index_reg = "")
  THEN DirectReference(op)
  ELSE DisplacementReference(op)

\* InstructionLifter::LiftAddressOperand.
LiftAddressOperand(op) ==
  IF op.kind = "kControlFlowTarget"
  THEN LiftResult(GenericLiftAddressOperand(op), FALSE, imm_ref,
                  imm_ref_used, mem_ref_used, disp_ref_used, op, <<>>)
  ELSE IF \/ (op.base_reg = "" /\ op.index_reg = "")
          \/ (op.base_reg = "PC" /\ op.index_reg = "")
  THEN DirectReference(op)
  ELSE IF \/ (op.base_reg = "" /\ op.index_reg = "")
          \/ (op.base_reg = "NEXT_PC" /\ op.index_reg = "")
  THEN DirectReference(op)
  ELSE DisplacementReference(op)

\* LiftIntoBlock that fetches the references but leaves the used flags as
\* the previous instruction left them.
LiftIntoBlockEnter_KeepFlags ==
  /\ lpc = "start"
  /\ UNCHANGED optVars
  /\ mem_ref' = IF cfg_inst # NULL THEN GetAddress(cfg_inst.mem) ELSE NULL
  /\ imm_ref' = IF cfg_inst # NULL THEN GetAddress(cfg_inst.imm) ELSE NULL
  /\ disp_ref' = IF cfg_inst # NULL THEN GetAddress(cfg_inst.disp) ELSE NULL
  /\ lpc' = "delegate"
  /\ UNCHANGED <<cfg_inst, inst, ops0, op_idx, args, status, lift_log,
                 mem_ref_used, disp_ref_used, imm_ref_used>>

\* InstructionLifter::LiftIntoBlock, up to the delegation.
LiftIntoBlockEnter ==
  /\ lpc = "start"
  /\ UNCHANGED optVars
  /\ mem_ref' = IF cfg_inst # NULL THEN GetAddress(cfg_inst.mem) ELSE NULL
  /\ imm_ref' = IF cfg_inst # NULL THEN GetAddress(cfg_inst.imm) ELSE NULL
  /\ disp_ref' = IF cfg_inst # NULL THEN GetAddress(cfg_inst.disp) ELSE NULL
  /\ mem_ref_used' = FALSE
  /\ disp_ref_used' = FALSE
  /\ imm_ref_used' = FALSE
  /\ lpc' = "delegate"
  /\ UNCHANGED <<cfg_inst, inst, ops0, op_idx, args, status, lift_log>>

\* The delegated lift finds no semantics to call: it drops the operands and
\* returns a status other than kLiftedInstruction.
DelegateNoSemantics ==
  /\ lpc = "delegate"
  /\ UNCHANGED optVars
  /\ inst.sem # "ok"
  /\ inst' = [inst EXCEPT !.operands = <<>>]
  /\ status' = IF inst.sem = "invalid" THEN kLiftedInvalidInstruction
               ELSE kLiftedUnsupportedInstruction
  /\ lpc' = "post"
  /\ UNCHANGED <<cfg_inst, ops0, mem_ref, imm_ref, disp_ref, mem_ref_used,
                 imm_ref_used, disp_ref_used, op_idx, args, lift_log>>

\* The members and outputs after an operand-lift call that returned r.
AfterOperand(r) ==
  /\ imm_ref' = r.imm_ref
  /\ imm_ref_used' = r.imm_ref_used
  /\ mem_ref_used' = r.mem_ref_used
  /\ disp_ref_used' = r.disp_ref_used
  /\ inst' = [inst EXCEPT !.operands[op_idx] = r.op]
  /\ lift_log' = lift_log \o r.log
  /\ IF r.fatal
     THEN /\ lpc' = "fatal"
          /\ UNCHANGED <<op_idx, args>>
     ELSE /\ lpc' = "delegate"
          /\ op_idx' = op_idx + 1
          /\ args' = Append(args, r.ret)
  /\ UNCHANGED <<cfg_inst, ops0, mem_ref, disp_ref, status>>

\* The delegated lift hands the next operand, an immediate, to the lifter.
LiftImmediateOperandCall ==
  /\ lpc = "delegate"
  /\ UNCHANGED optVars
  /\ inst.sem = "ok"
  /\ op_idx <= Len(inst.operands)
  /\ inst.operands[op_idx].type = "imm"
  /\ AfterOperand(LiftImmediateOperand(inst.operands[op_idx]))

\* The delegated lift hands the next operand, an address, to the lifter.
LiftAddressOperandCall ==
  /\ lpc = "delegate"
  /\ UNCHANGED optVars
  /\ inst.sem = "ok"
  /\ op_idx <= Len(inst.operands)
  /\ inst.operands[op_idx].type = "addr"
  /\ AfterOperand(LiftAddressOperand(inst.operands[op_idx]))

\* The delegated lift lowers a register operand itself.
LiftRegisterOperandCall ==
  /\ lpc = "delegate"
  /\ UNCHANGED optVars
  /\ inst.sem = "ok"
  /\ op_idx <= Len(inst.operands)
  /\ inst.operands[op_idx].type = "reg"
  /\ args' = Append(args, [kind |-> "reg", base |-> inst.operands[op_idx].base_reg])
  /\ op_idx' = op_idx + 1
  /\ UNCHANGED <<cfg_inst, inst, ops0, mem_ref, imm_ref, disp_ref, mem_ref_used,
                 imm_ref_used, disp_ref_used, lpc, status, lift_log>>

\* The delegated lift has lifted every operand and returns.
DelegateReturn ==
  /\ lpc = "delegate"
  /\ UNCHANGED optVars
  /\ inst.sem = "ok"
  /\ op_idx > Len(inst.operands)
  /\ status' = kLiftedInstruction
  /\ lpc' = "post"
  /\ UNCHANGED <<cfg_inst, inst, ops0, mem_ref, imm_ref, disp_ref, mem_ref_used,
                 imm_ref_used, disp_ref_used, op_idx, args, lift_log>>

\* The diagnostics logged whatever status the delegation returned.
UnusedReferenceLog_AnyStatus ==
  (IF mem_ref # NULL /\ ~mem_ref_used
   THEN <<"Unused memory reference operand">> ELSE <<>>)
  \o (IF imm_ref # NULL /\ ~imm_ref_used
      THEN <<"Unused immediate operand reference">> ELSE <<>>)
  \o (IF disp_ref # NULL /\ ~disp_ref_used
      THEN <<"Unused displacement operand reference">> ELSE <<>>)

\* The diagnostics LiftIntoBlock logs after the delegation.
UnusedReferenceLog ==
  IF status = kLiftedInstruction
  THEN (IF mem_ref # NULL /\ ~mem_ref_used
        THEN <<"Unused memory reference operand">> ELSE <<>>)
       \o (IF imm_ref # NULL /\ ~imm_ref_used
           THEN <<"Unused immediate operand reference">> ELSE <<>>)
       \o (IF disp_ref # NULL /\ ~disp_ref_used
           THEN <<"Unused displacement operand reference">> ELSE <<>>)
  ELSE <<>>

\* InstructionLifter::LiftIntoBlock, after the delegation.
LiftIntoBlockReturn ==
  /\ lpc = "post"
  /\ UNCHANGED optVars
  /\ lift_log' = lift_log \o UnusedReferenceLog
  /\ lpc' = "done"
  /\ UNCHANGED <<cfg_inst, inst, ops0, mem_ref, imm_ref, disp_ref, mem_ref_used,
                 imm_ref_used, disp_ref_used, op_idx, args, status>>

\* The operands of the instructions of a block lifted in sequence: a
\* register, an immediate narrower than an address, an absolute data
\* address and a base-register data address.
BlockOperands ==
  RegisterOperands
  \cup {op \in ImmediateOperands : op.arg_size < address_size}
  \cup {op \in AddressOperands :
          /\ op.kind # "kControlFlowTarget"
          /\ op.index_reg = ""
          /\ op.base_reg \in {"", "RAX"}
          /\ op.displacement = 4112}

\* The instructions of a block lifted in sequence.
BlockInstructions ==
  {i \in Instructions : \A k \in DOMAIN i.operands : i.operands[k] \in BlockOperands}

\* Their CFG entries: none, or one with a masked memory reference and
\* unmasked immediate and displacement references, each present or absent.
BlockEntries ==
  {NULL} \cup {n \in NativeInstructions :
                 /\ n.mem # NULL => (n.mem.target_ea = 4112 /\ n.mem.mask # 0)
                 /\ n.imm # NULL => n.imm.mask = 0}

\* LiftIntoBlock has returned and the caller hands the lifter the next
\* instruction, with its CFG entry if it has one.  The members of the
\* lifter are what the previous call left.
LiftIntoBlockNext ==
  /\ lpc = "done"
  /\ UNCHANGED optVars
  /\ cfg_inst' \in BlockEntries
  /\ inst' \in BlockInstructions
  /\ ops0' = inst'.operands
  /\ op_idx' = 1
  /\ args' = <<>>
  /\ status' = "none"
  /\ lift_log' = <<>>
  /\ lpc' = "start"
  /\ UNCHANGED <<mem_ref, imm_ref, disp_ref, mem_ref_used, imm_ref_used,
                 disp_ref_used>>

----------------------------------------------------------------------------
(* The LLVM module, gModule.                                               *)
(*                                                                         *)
(* funcs[name]   = [decl, linkage, attrs, type]                            *)
(* globals[name] = [init, linkage]      init: a value, or NULL             *)
(* consts[id]    = [op, refs]           refs: the operands, a sequence     *)
(* insts[id]     = [op, parent, fn, args, type]                            *)
(*   op: "call", "cast", "cmp", "store", "load", "other"; parent: the      *)
(*   function that holds the instruction; fn: the called function of a     *)
(*   direct call, else ""; args: the operands (of a call: its arguments)   *)
(***************************************************************************)

InstV(i) == [k |-> "inst", id |-> i]
ArgV(n) == [k |-> "arg", name |-> n]
FuncV(f) == [k |-> "func", name |-> f]
GlobalV(g) == [k |-> "global", name |-> g]
ConstV(c) == [k |-> "const", id |-> c]

\* llvm::UndefValue::get(type).
UndefValue(type) == [k |-> "undef", type |-> type]

Instruction(op, parent, fn, operands, type) ==
  [op |-> op, parent |-> parent, fn |-> fn, args |-> operands, type |-> type]

Function(decl, linkage, attrs, type) ==
  [decl |-> decl, linkage |-> linkage, attrs |-> attrs, type |-> type]

\* A function type: the return type and the parameter types.
FunctionType(ret, params) == [ret |-> ret, params |-> params]

\* The module a stage works on, as one value.
Module(F, G, C, I, h) ==
  [funcs |-> F, globals |-> G, consts |-> C, insts |-> I, halt |-> h]

gModule == Module(funcs, globals, consts, insts, halt)

\* f without the keys in S.
Without(f, S) == [x \in DOMAIN f \ S |-> f[x]]

\* The instructions of the input module have the ids 4, 8, 12, ...; the
\* k-th instruction an IRBuilder inserts before instruction i has id i + k.
InstsOf(seq) == [i \in {4 * k : k \in 1..Len(seq)} |-> seq[i \div 4]]

\* The operand slots of the instructions of I that hold v.
InstUses(I, v) ==
  UNION {{<<i, j>> : j \in {k \in DOMAIN I[i].args : I[i].args[k] = v}} :
           i \in DOMAIN I}

\* The operand slots of the constants of C that hold v.
ConstUses(C, v) ==
  UNION {{<<c, j>> : j \in {k \in DOMAIN C[c].refs : C[c].refs[k] = v}} :
           c \in DOMAIN C}

\* llvm::Value::users, of an instruction's result: the instructions that use it.
UsersOf(I, v) == {u[1] : u \in InstUses(I, v)}

\* llvm::Value::getNumUses of a function: call sites, operands, initializers
\* and constants.
NumUsesOfFunction(m, f) ==
  Cardinality({i \in DOMAIN m.insts : m.insts[i].fn = f})
  + Cardinality(InstUses(m.insts, FuncV(f)))
  + Cardinality({g \in DOMAIN m.globals : m.globals[g].init = FuncV(f)})
  + Cardinality(ConstUses(m.consts, FuncV(f)))

\* llvm::Value::getNumUses of a global variable.
NumUsesOfGlobal(m, g) ==
  Cardinality(InstUses(m.insts, GlobalV(g)))
  + Cardinality({h \in DOMAIN m.globals : m.globals[h].init = GlobalV(g)})
  + Cardinality(ConstUses(m.consts, GlobalV(g)))

\* llvm::Value::replaceAllUsesWith, for the result of an instruction.
ReplaceAllUsesWith(I, old, new) ==
  [i \in DOMAIN I |->
     [I[i] EXCEPT !.args = [j \in DOMAIN @ |-> IF @[j] = old THEN new ELSE @[j]]]]

\* llvm::Instruction::eraseFromParent, for the instructions in S.
EraseFromParent(I, S) == Without(I, S)

\* CallersOf: the call instructions whose called function is f.
CallersOf(I, f) == {i \in DOMAIN I : I[i].op = "call" /\ I[i].fn = f}

\* The order in which a use list hands out the instructions of S: that of
\* the sequence prio.
RECURSIVE InOrder(_, _)
InOrder(S, prio) ==
  IF prio = <<>> THEN <<>>
  ELSE IF Head(prio) \in S THEN <<Head(prio)>> \o InOrder(S, Tail(prio))
  ELSE InOrder(S, Tail(prio))

\* The orders in which the instructions of the set S can be visited.
RECURSIVE Orders(_)
Orders(S) ==
  IF S = {} THEN {<<>>}
  ELSE UNION {{<<x>> \o o : o \in Orders(S \ {x})} : x \in S}

\* RemoveFunction without the test on the uses.
RemoveFunction_Always(m, f) ==
  [m EXCEPT !.funcs = Without(@, {f}),
            !.insts = Without(@, {i \in DOMAIN @ : @[i].parent = f})]

\* RemoveFunction(llvm::Function *).
RemoveFunction(m, f) ==
  IF ~(NumUsesOfFunction(m, f) >= 1)
  THEN [m EXCEPT !.funcs = Without(@, {f}),
                 !.insts = Without(@, {i \in DOMAIN @ : @[i].parent = f})]
  ELSE m

----------------------------------------------------------------------------
(* The well-known intrinsics.                                              *)

\* remill::kMemoryPointerArgNum.
kMemoryPointerArgNum == 0

BarrierNames ==
  <<"__remill_barrier_load_load", "__remill_barrier_load_store",
    "__remill_barrier_store_load", "__remill_barrier_store_store",
    "__remill_barrier_atomic_begin", "__remill_barrier_atomic_end">>

Range(seq) == {seq[i] : i \in DOMAIN seq}

----------------------------------------------------------------------------
(* Barrier lowering.                                                       *)

\* ReplaceBarrierLoop without the replaceAllUsesWith.
ReplaceBarrierLoop_EraseOnly(I, callers) == EraseFromParent(I, Range(callers))

\* The loop of ReplaceBarrier over the callers, in the order given.
RECURSIVE ReplaceBarrierLoop(_, _)
ReplaceBarrierLoop(I, callers) ==
  IF callers = <<>> THEN I
  ELSE LET call_inst == Head(callers)
           mem_ptr == I[call_inst].args[kMemoryPointerArgNum + 1]
       IN ReplaceBarrierLoop(
            EraseFromParent(ReplaceAllUsesWith(I, InstV(call_inst), mem_ptr),
                            {call_inst}),
            Tail(callers))

\* ReplaceBarrier(name).
ReplaceBarrier(m, name, prio) ==
  IF name \notin DOMAIN m.funcs THEN m
  ELSE IF ~m.funcs[name].decl
  THEN \* CHECK(func->isDeclaration()) fails.
       [m EXCEPT !.halt = "aborted"]
  ELSE [m EXCEPT !.insts =
          ReplaceBarrierLoop(@, InOrder(CallersOf(@, name), prio))]

\* The six ReplaceBarrier calls of OptimizeModule; a failed CHECK ends the
\* process.
RECURSIVE ReplaceBarriers(_, _, _)
ReplaceBarriers(m, names, prio) ==
  IF names = <<>> \/ m.halt # "" THEN m
  ELSE ReplaceBarriers(ReplaceBarrier(m, Head(names), prio), Tail(names), prio)

----------------------------------------------------------------------------
(* Memory-operation lowering.                                              *)

\* I with the instruction rec under the id.
Insert(I, id, rec) ==
  [x \in DOMAIN I \cup {id} |-> IF x = id THEN rec ELSE I[x]]

PointerType(val_type) == val_type \o "*"

isX86_FP80Ty(val_type) == val_type = "x86_fp80"

\* The name and value type of every LowerMemOps call, in its order.
MemOps ==
  <<[name |-> "__remill_read_memory_8", kind |-> "read", val_type |-> "i8"],
    [name |-> "__remill_read_memory_16", kind |-> "read", val_type |-> "i16"],
    [name |-> "__remill_read_memory_32", kind |-> "read", val_type |-> "i32"],
    [name |-> "__remill_read_memory_64", kind |-> "read", val_type |-> "i64"],
    [name |-> "__remill_read_memory_f32", kind |-> "read", val_type |-> "float"],
    [name |-> "__remill_read_memory_f64", kind |-> "read", val_type |-> "double"],
    [name |-> "__remill_write_memory_8", kind |-> "write", val_type |-> "i8"],
    [name |-> "__remill_write_memory_16", kind |-> "write", val_type |-> "i16"],
    [name |-> "__remill_write_memory_32", kind |-> "write", val_type |-> "i32"],
    [name |-> "__remill_write_memory_64", kind |-> "write", val_type |-> "i64"],
    [name |-> "__remill_write_memory_f32", kind |-> "write", val_type |-> "float"],
    [name |-> "__remill_write_memory_f64", kind |-> "write", val_type |-> "double"],
    [name |-> "__remill_read_memory_f80", kind |-> "read", val_type |-> "x86_fp80"],
    [name |-> "__remill_write_memory_f80", kind |-> "write",
     val_type |-> "x86_fp80"]>>

\* The first loop of ReplaceMemReadOp: before each call an inttoptr and a
\* load, and for x86_fp80 an fptrunc; the users of the call get the value.
RECURSIVE ReadCalls(_, _, _, _)
ReadCalls(I, callers, val_type, ret_type) ==
  IF callers = <<>> THEN I
  ELSE LET call_inst == Head(callers)
           parent == I[call_inst].parent
           addr == I[call_inst].args[2]
           ptr == Instruction("inttoptr", parent, "", <<addr>>,
                              PointerType(val_type))
           load == Instruction("load", parent, "", <<InstV(call_inst + 1)>>,
                               val_type)
           trunc == Instruction("fptrunc", parent, "",
                                <<InstV(call_inst + 2)>>, ret_type)
           I1 == Insert(Insert(I, call_inst + 1, ptr), call_inst + 2, load)
           I2 == IF isX86_FP80Ty(val_type)
                 THEN Insert(I1, call_inst + 3, trunc) ELSE I1
           val == IF isX86_FP80Ty(val_type)
                  THEN InstV(call_inst + 3) ELSE InstV(call_inst + 2)
       IN ReadCalls(ReplaceAllUsesWith(I2, InstV(call_inst), val),
                    Tail(callers), val_type, ret_type)

\* WriteCalls with the users of a call left on the call.
RECURSIVE WriteCalls_KeepUsers(_, _, _)
WriteCalls_KeepUsers(I, callers, val_type) ==
  IF callers = <<>> THEN I
  ELSE LET call_inst == Head(callers)
           ptr == Instruction("inttoptr", I[call_inst].parent, "",
                              <<I[call_inst].args[2]>>, PointerType(val_type))
           store == Instruction("store", I[call_inst].parent, "",
                                <<I[call_inst].args[3], InstV(call_inst + 1)>>,
                                "void")
       IN WriteCalls_KeepUsers(
            Insert(Insert(I, call_inst + 1, ptr), call_inst + 2, store),
            Tail(callers), val_type)

\* The first loop of ReplaceMemWriteOp: before each call an inttoptr, for
\* x86_fp80 an fpext, and a store; the users of the call get its memory
\* pointer argument.
RECURSIVE WriteCalls(_, _, _)
WriteCalls(I, callers, val_type) ==
  IF callers = <<>> THEN I
  ELSE LET call_inst == Head(callers)
           parent == I[call_inst].parent
           mem_ptr == I[call_inst].args[1]
           addr == I[call_inst].args[2]
           val == I[call_inst].args[3]
           ptr == Instruction("inttoptr", parent, "", <<addr>>,
                              PointerType(val_type))
           ext == Instruction("fpext", parent, "", <<val>>, val_type)
           store == Instruction("store", parent, "",
                                <<IF isX86_FP80Ty(val_type)
                                  THEN InstV(call_inst + 3) ELSE val,
                                  InstV(call_inst + 1)>>, "void")
           I1 == Insert(I, call_inst + 1, ptr)
           I2 == IF isX86_FP80Ty(val_type)
                 THEN Insert(I1, call_inst + 3, ext) ELSE I1
           I3 == Insert(I2, call_inst + 2, store)
       IN WriteCalls(ReplaceAllUsesWith(I3, InstV(call_inst), mem_ptr),
                     Tail(callers), val_type)

\* ReplaceMemReadOp without the CHECK.
ReplaceMemReadOp_NoCheck(m, name, val_type, prio) ==
  IF name \notin DOMAIN m.funcs THEN m
  ELSE LET callers == InOrder(CallersOf(m.insts, name), prio)
           I1 == ReadCalls(m.insts, callers, val_type, m.funcs[name].type.ret)
       IN RemoveFunction(
            [m EXCEPT !.insts = EraseFromParent(I1, Range(callers))], name)

\* ReplaceMemReadOp(name, val_type).
ReplaceMemReadOp(m, name, val_type, prio) ==
  IF name \notin DOMAIN m.funcs THEN m
  ELSE IF ~m.funcs[name].decl
  THEN [m EXCEPT !.halt = "aborted"]
  ELSE LET callers == InOrder(CallersOf(m.insts, name), prio)
           I1 == ReadCalls(m.insts, callers, val_type, m.funcs[name].type.ret)
       IN RemoveFunction(
            [m EXCEPT !.insts = EraseFromParent(I1, Range(callers))], name)

\* ReplaceMemWriteOp(name, val_type).
ReplaceMemWriteOp(m, name, val_type, prio) ==
  IF name \notin DOMAIN m.funcs THEN m
  ELSE IF ~m.funcs[name].decl
  THEN [m EXCEPT !.halt = "aborted"]
  ELSE LET callers == InOrder(CallersOf(m.insts, name), prio)
           I1 == WriteCalls(m.insts, callers, val_type)
       IN RemoveFunction(
            [m EXCEPT !.insts = EraseFromParent(I1, Range(callers))], name)

ReplaceMemOp(m, mem_op, prio) ==
  IF mem_op.kind = "read"
  THEN ReplaceMemReadOp(m, mem_op.name, mem_op.val_type, prio)
  ELSE ReplaceMemWriteOp(m, mem_op.name, mem_op.val_type, prio)

\* The calls of LowerMemOps from the one for ops[1] on; a failed CHECK ends
\* the process.
RECURSIVE LowerMemOpsFrom(_, _, _)
LowerMemOpsFrom(m, ops, prio) ==
  IF ops = <<>> \/ m.halt # "" THEN m
  ELSE LowerMemOpsFrom(ReplaceMemOp(m, Head(ops), prio), Tail(ops), prio)

LowerMemOps(m, prio) == LowerMemOpsFrom(m, MemOps, prio)

----------------------------------------------------------------------------
(* Undefined-value elimination.                                            *)

UndefNames ==
  <<"__remill_undefined_8", "__remill_undefined_16", "__remill_undefined_32",
    "__remill_undefined_64", "__remill_undefined_f32",
    "__remill_undefined_f64">>

isa_CastInst(user) ==
  user.op \in {"inttoptr", "ptrtoint", "zext", "trunc", "bitcast", "fptrunc",
               "fpext"}

isa_CmpInst(user) == user.op \in {"icmp", "fcmp"}

isa_StoreInst(user) == user.op = "store"

\* The first loop of ReplaceUndefIntrinsic: the users of every call go on
\* the work list, the call is replaced by undef and deleted.
RECURSIVE UndefCalls(_, _, _, _)
UndefCalls(I, call_insts, undef_val, work_list) ==
  IF call_insts = <<>> THEN [insts |-> I, work_list |-> work_list]
  ELSE LET call_inst == Head(call_insts)
       IN UndefCalls(
            EraseFromParent(ReplaceAllUsesWith(I, InstV(call_inst), undef_val),
                            {call_inst}),
            Tail(call_insts), undef_val,
            work_list \cup UsersOf(I, InstV(call_inst)))

\* PropagateRound that passes undef on through casts only.
RECURSIVE PropagateRound_CastOnly(_, _, _, _)
PropagateRound_CastOnly(I, order, next_work_list, dead_stores_) ==
  IF order = <<>>
  THEN [insts |-> I, work_list |-> next_work_list, dead_stores |-> dead_stores_]
  ELSE LET i == Head(order)
       IN IF isa_CastInst(I[i])
          THEN PropagateRound_CastOnly(
                 ReplaceAllUsesWith(I, InstV(i), UndefValue(I[i].type)),
                 Tail(order), next_work_list \cup UsersOf(I, InstV(i)),
                 dead_stores_)
          ELSE IF isa_StoreInst(I[i])
          THEN PropagateRound_CastOnly(I, Tail(order), next_work_list,
                                       Append(dead_stores_, i))
          ELSE PropagateRound_CastOnly(I, Tail(order), next_work_list,
                                       dead_stores_)

\* One pass of the for loop over the work list, in the order given.
RECURSIVE PropagateRound(_, _, _, _)
PropagateRound(I, order, next_work_list, dead_stores_) ==
  IF order = <<>>
  THEN [insts |-> I, work_list |-> next_work_list, dead_stores |-> dead_stores_]
  ELSE LET i == Head(order)
       IN IF isa_CmpInst(I[i]) \/ isa_CastInst(I[i])
          THEN PropagateRound(
                 ReplaceAllUsesWith(I, InstV(i), UndefValue(I[i].type)),
                 Tail(order), next_work_list \cup UsersOf(I, InstV(i)),
                 dead_stores_)
          ELSE IF isa_StoreInst(I[i])
          THEN PropagateRound(I, Tail(order), next_work_list,
                              Append(dead_stores_, i))
          ELSE PropagateRound(I, Tail(order), next_work_list, dead_stores_)

\* The while loop of ReplaceUndefIntrinsic.
RECURSIVE Propagate(_, _, _, _)
Propagate(I, work_list, dead_stores_, prio) ==
  IF work_list = {}
  THEN [insts |-> I, dead_stores |-> dead_stores_]
  ELSE LET r == PropagateRound(I, InOrder(work_list, prio), {}, dead_stores_)
       IN Propagate(r.insts, r.work_list, r.dead_stores, prio)

\* A store that is in the list twice is erased twice: the second erase works
\* on a freed instruction.
ErasedTwice(list) ==
  \E a, b \in DOMAIN list : a # b /\ list[a] = list[b]

\* ReplaceUndefIntrinsic(function), with the dead stores it has collected;
\* ub is what the second erase of a store does to the process.
ReplaceUndefIntrinsic(m, function, prio, ub) ==
  LET call_insts == InOrder(CallersOf(m.insts, function), prio)
      undef_val == UndefValue(m.funcs[function].type.ret)
      c == UndefCalls(m.insts, call_insts, undef_val, {})
      p == Propagate(c.insts, c.work_list, <<>>, prio)
  IN [module |->
        [m EXCEPT !.insts = EraseFromParent(p.insts, Range(p.dead_stores)),
                  !.halt = IF ErasedTwice(p.dead_stores) /\ ub = "crash"
                           THEN "crashed" ELSE @],
      dead_stores |-> p.dead_stores]

\* The loop of RemoveUndefFuncCalls from undef_funcs[1] on, with the dead
\* store lists of the ReplaceUndefIntrinsic calls so far.
RECURSIVE RemoveUndefFuncCallsFrom(_, _, _, _, _)
RemoveUndefFuncCallsFrom(m, undef_funcs, lists, prio, ub) ==
  IF undef_funcs = <<>> \/ m.halt # ""
  THEN [module |-> m, dead_stores |-> lists]
  ELSE LET undef_func == Head(undef_funcs)
       IN IF undef_func \notin DOMAIN m.funcs
          THEN RemoveUndefFuncCallsFrom(m, Tail(undef_funcs), lists, prio, ub)
          ELSE LET r == ReplaceUndefIntrinsic(m, undef_func, prio, ub)
               IN RemoveUndefFuncCallsFrom(
                    IF r.module.halt # "" THEN r.module
                    ELSE RemoveFunction(r.module, undef_func),
                    Tail(undef_funcs), Append(lists, r.dead_stores), prio, ub)

RemoveUndefFuncCalls(m, prio, ub) ==
  RemoveUndefFuncCallsFrom(m, UndefNames, <<>>, prio, ub)

----------------------------------------------------------------------------
(* ISELs and intrinsics.                                                   *)

\* The constants that use the value v.
ConstUsers(m, v) ==
  {c \in DOMAIN m.consts : v \in Range(m.consts[c].refs)}

\* llvm::Constant: the constant c has no live user, so that
\* removeDeadConstantUsers destroys it.
RECURSIVE IsDeadConstant(_, _)
IsDeadConstant(m, c) ==
  /\ InstUses(m.insts, ConstV(c)) = {}
  /\ \A g \in DOMAIN m.globals : m.globals[g].init # ConstV(c)
  /\ \A d \in ConstUsers(m, ConstV(c)) : IsDeadConstant(m, d)

\* The constant c uses the value v, directly or through other constants.
RECURSIVE UsesValue(_, _, _)
UsesValue(m, c, v) ==
  \/ v \in Range(m.consts[c].refs)
  \/ \E d \in DOMAIN m.consts :
       ConstV(d) \in Range(m.consts[c].refs) /\ UsesValue(m, d, v)

\* llvm::GlobalVariable::eraseFromParent: the dead constant users of the
\* global are destroyed with it.  A use that remains is left pointing at a
\* freed global; ub is what that does to the process.
EraseGlobal(m, g, ub) ==
  LET dead == {c \in DOMAIN m.consts :
                 UsesValue(m, c, GlobalV(g)) /\ IsDeadConstant(m, c)}
      m1 == [m EXCEPT !.consts = Without(@, dead),
                      !.globals = Without(@, {g})]
  IN IF NumUsesOfGlobal(m1, g) > 0 /\ ub = "crash"
     THEN [m1 EXCEPT !.halt = "crashed"]
     ELSE m1

\* llvm::Value::stripPointerCasts, of an initializer.
RECURSIVE stripPointerCasts(_, _)
stripPointerCasts(m, v) ==
  IF v.k = "const" /\ m.consts[v.id].op = "bitcast"
  THEN stripPointerCasts(m, m.consts[v.id].refs[1])
  ELSE v

\* The test of FindISELs on one global.
IsISEL(m, isel) ==
  LET lifted_func_type == m.funcs["__remill_basic_block"].type
      mem_type == lifted_func_type.params[1]
      state_type == lifted_func_type.params[2]
  IN /\ m.globals[isel].init # NULL
     /\ LET sem == stripPointerCasts(m, m.globals[isel].init)
        IN /\ sem.k = "func"
           /\ LET sem_type == m.funcs[sem.name].type
              IN /\ mem_type = sem_type.params[1]
                 /\ state_type = sem_type.params[2]

\* FindISELs, as the set of globals it returns; their order is that of the
\* module's list of globals.
FindISELs(m) ==
  IF "__remill_basic_block" \notin DOMAIN m.funcs THEN {}
  ELSE {isel \in DOMAIN m.globals : IsISEL(m, isel)}

\* One pass of the for loop of RemoveISELs.
RECURSIVE ScanISELs(_, _, _, _)
ScanISELs(m, list, next_isels, ub) ==
  IF list = <<>> \/ m.halt # ""
  THEN [module |-> m, next_isels |-> next_isels]
  ELSE LET isel == Head(list)
           m1 == [m EXCEPT !.globals[isel].linkage = "internal"]
       IN IF 1 >= NumUsesOfGlobal(m1, isel)
          THEN ScanISELs(EraseGlobal(m1, isel, ub), Tail(list), next_isels, ub)
          ELSE ScanISELs(m1, Tail(list), Append(next_isels, isel), ub)

\* RemoveFunction(const char *).
RemoveFunctionNamed(m, name) ==
  IF name \in DOMAIN m.funcs
  THEN RemoveFunction([m EXCEPT !.funcs[name].linkage = "internal"], name)
  ELSE m

RECURSIVE RemoveFunctionsNamed(_, _)
RemoveFunctionsNamed(m, names) ==
  IF names = <<>> THEN m
  ELSE RemoveFunctionsNamed(RemoveFunctionNamed(m, Head(names)), Tail(names))

\* The id of the return instruction RemoveIntrinsics creates.
ReturnInstId == 0

\* RemoveIntrinsics.
RemoveIntrinsics(m, ub) ==
  LET m1 == IF "llvm.used" \in DOMAIN m.globals
            THEN EraseGlobal(m, "llvm.used", ub) ELSE m
      remill_used == "__remill_mark_as_used"
      m2 == IF remill_used \in DOMAIN m1.funcs /\ m1.funcs[remill_used].decl
            THEN [m1 EXCEPT
                    !.funcs[remill_used] =
                      [@ EXCEPT !.decl = FALSE, !.linkage = "internal",
                                !.attrs = (@ \ {"noinline"})
                                            \cup {"inlinehint", "alwaysinline"}],
                    !.insts = Insert(@, ReturnInstId,
                                Instruction("ret", remill_used, "", <<>>, "void"))]
            ELSE m1
  IN IF m1.halt # "" THEN m1
     ELSE RemoveFunctionsNamed(m2,
            <<"__remill_intrinsics", "__remill_basic_block",
              "__remill_mark_as_used", "__remill_defer_inlining",
              "__remill_function_return", "__remill_mark_as_used">>)

\* RunO3: of what the pass managers do, the inlining of the calls to an
\* alwaysinline function whose body is a lone return, which is what
\* RemoveIntrinsics makes of __remill_mark_as_used, and the removal of such a
\* function once it is internal and unused.
RunO3(m) ==
  LET Body(f) == {i \in DOMAIN m.insts : m.insts[i].parent = f}
      inlined == {f \in DOMAIN m.funcs :
                    /\ ~m.funcs[f].decl
                    /\ "alwaysinline" \in m.funcs[f].attrs
                    /\ \A i \in Body(f) : m.insts[i].op = "ret"}
      calls == {i \in DOMAIN m.insts :
                  m.insts[i].op = "call" /\ m.insts[i].fn \in inlined}
      m1 == [m EXCEPT !.insts = EraseFromParent(@, calls)]
      unused == {f \in inlined : /\ m1.funcs[f].linkage = "internal"
                                 /\ NumUsesOfFunction(m1, f) = 0}
  IN [m1 EXCEPT !.funcs = Without(@, unused),
                !.insts = Without(@, {i \in DOMAIN @ : @[i].parent \in unused})]

----------------------------------------------------------------------------
(* OptimizeModule.                                                         *)

\* OptimizeModuleStages with the memory operations lowered before RunO3.
OptimizeModuleStages_LowerFirst ==
  <<"FindISELs", "RemoveIntrinsics", "RemoveISELs", "LowerMemOps", "RunO3",
    "RemoveIntrinsics", "ReplaceBarrier", "RemoveUndefFuncCalls">>

\* The calls of OptimizeModule, in its order.
OptimizeModuleStages ==
  <<"FindISELs", "RemoveIntrinsics", "RemoveISELs", "RunO3",
    "RemoveIntrinsics", "LowerMemOps", "ReplaceBarrier",
    "RemoveUndefFuncCalls">>

\* opc when OptimizeModule has returned.
Returned == Len(OptimizeModuleStages) + 1

\* What a use of freed memory does to the process.
UBOutcomes == {"crash", "survive"}

\* The next call of OptimizeModule is the one named.
AtStage(name) ==
  /\ halt = ""
  /\ opc \in DOMAIN OptimizeModuleStages
  /\ OptimizeModuleStages[opc] = name

\* The module becomes m; the call at opc has returned unless the process
\* has ended in it.
StageReturns(m) ==
  /\ funcs' = m.funcs
  /\ globals' = m.globals
  /\ consts' = m.consts
  /\ insts' = m.insts
  /\ halt' = m.halt
  /\ pre' = gModule
  /\ step' = OptimizeModuleStages[opc]
  /\ opc' = IF m.halt = "" THEN opc + 1 ELSE opc
  /\ trace' = IF m.halt = "" THEN Append(trace, OptimizeModuleStages[opc])
              ELSE trace

FindISELsCall ==
  /\ AtStage("FindISELs")
  /\ \E order \in Orders(FindISELs(gModule)) : isels' = order
  /\ StageReturns(gModule)
  /\ UNCHANGED <<liftVars, dead_stores>>

RemoveIntrinsicsCall ==
  /\ AtStage("RemoveIntrinsics")
  /\ \E ub \in UBOutcomes : StageReturns(RemoveIntrinsics(gModule, ub))
  /\ UNCHANGED <<liftVars, isels, dead_stores>>

\* One iteration of the while loop of RemoveISELs.
RemoveISELsScan ==
  /\ AtStage("RemoveISELs")
  /\ isels # <<>>
  /\ \E ub \in UBOutcomes :
       LET r == ScanISELs(gModule, isels, <<>>, ub)
       IN /\ isels' = r.next_isels
          /\ funcs' = r.module.funcs
          /\ globals' = r.module.globals
          /\ consts' = r.module.consts
          /\ insts' = r.module.insts
          /\ halt' = r.module.halt
  /\ pre' = gModule
  /\ step' = "RemoveISELs scan"
  /\ UNCHANGED <<liftVars, opc, dead_stores, trace>>

\* The while loop of RemoveISELs ends.
RemoveISELsReturn ==
  /\ AtStage("RemoveISELs")
  /\ isels = <<>>
  /\ StageReturns(gModule)
  /\ UNCHANGED <<liftVars, isels, dead_stores>>

RunO3Call ==
  /\ AtStage("RunO3")
  /\ StageReturns(RunO3(gModule))
  /\ UNCHANGED <<liftVars, isels, dead_stores>>

\* The calls of the module to the functions named.
CallsTo(m, names) ==
  {i \in DOMAIN m.insts : m.insts[i].op = "call" /\ m.insts[i].fn \in names}

LowerMemOpsCall ==
  /\ AtStage("LowerMemOps")
  /\ \E prio \in Orders(CallsTo(gModule, {MemOps[k].name : k \in DOMAIN MemOps})) :
       StageReturns(LowerMemOps(gModule, prio))
  /\ UNCHANGED <<liftVars, isels, dead_stores>>

ReplaceBarrierCalls ==
  /\ AtStage("ReplaceBarrier")
  /\ \E prio \in Orders(CallsTo(gModule, Range(BarrierNames))) :
       StageReturns(ReplaceBarriers(gModule, BarrierNames, prio))
  /\ UNCHANGED <<liftVars, isels, dead_stores>>

\* The instructions a value can reach from the instructions in S through
\* their users.
RECURSIVE Downstream(_, _)
Downstream(I, S) ==
  LET more == S \cup UNION {UsersOf(I, InstV(i)) : i \in S}
  IN IF more = S THEN S ELSE Downstream(I, more)

RemoveUndefFuncCallsCall ==
  /\ AtStage("RemoveUndefFuncCalls")
  /\ \E prio \in Orders(Downstream(insts, CallsTo(gModule, Range(UndefNames)))),
        ub \in UBOutcomes :
       LET r == RemoveUndefFuncCalls(gModule, prio, ub)
       IN /\ StageReturns(r.module)
          /\ dead_stores' = r.dead_stores
  /\ UNCHANGED <<liftVars, isels>>

----------------------------------------------------------------------------
(* The modules OptimizeModule is run on.                                   *)

\* Instructions of a lifted function that call one family of intrinsics.
MaxInsts == 3

\* ISEL globals in a module.
MaxISELs == 2

\* The type of a lifted function and of __remill_basic_block.
LiftedFunctionType == FunctionType("Memory*", <<"Memory*", "State*", "i64">>)

OtherIntrinsicNames ==
  <<"__remill_intrinsics", "__remill_basic_block", "__remill_mark_as_used",
    "__remill_defer_inlining", "__remill_function_return">>

MemOpNames == [k \in DOMAIN MemOps |-> MemOps[k].name]

WellKnownNames ==
  Range(BarrierNames) \cup Range(MemOpNames) \cup Range(UndefNames)
    \cup Range(OtherIntrinsicNames)

\* The type remill declares the intrinsic with.
IntrinsicType(name) ==
  IF name \in Range(BarrierNames)
  THEN FunctionType("Memory*", <<"Memory*">>)
  ELSE IF name \in Range(MemOpNames)
  THEN LET mem_op == MemOps[CHOOSE k \in DOMAIN MemOps : MemOps[k].name = name]
           t == IF mem_op.val_type = "x86_fp80" THEN "double"
                ELSE mem_op.val_type
       IN IF mem_op.kind = "read"
          THEN FunctionType(t, <<"Memory*", "i64">>)
          ELSE FunctionType("Memory*", <<"Memory*", "i64", t>>)
  ELSE IF name \in Range(UndefNames)
  THEN FunctionType(
         CASE name = "__remill_undefined_8" -> "i8"
           [] name = "__remill_undefined_16" -> "i16"
           [] name = "__remill_undefined_32" -> "i32"
           [] name = "__remill_undefined_64" -> "i64"
           [] name = "__remill_undefined_f32" -> "float"
           [] OTHER -> "double", <<>>)
  ELSE IF name = "__remill_basic_block" THEN LiftedFunctionType
  ELSE IF name = "__remill_mark_as_used" THEN FunctionType("void", <<"i8*">>)
  ELSE FunctionType("void", <<>>)

\* A call in the lifted function sub_0.
Call(fn, operands, type) == Instruction("call", "sub_0", fn, operands, type)

\* The results of the instructions of body that have one of the types.
Results(body, types) ==
  {InstV(4 * k) : k \in {j \in DOMAIN body : body[j].type \in types}}

\* A call with a plain argument list for the intrinsic.
PlainCall(name) ==
  LET type == IntrinsicType(name)
      Arg(t) == CASE t = "Memory*" -> ArgV("memory")
                  [] t = "State*" -> ArgV("state")
                  [] t = "i64" -> ArgV("pc")
                  [] OTHER -> UndefValue(t)
  IN Call(name, [j \in DOMAIN type.params |-> Arg(type.params[j])], type.ret)

\* The instructions that can follow body in a lifted function of the family.
Steps(family, body) ==
  LET mem == {ArgV("memory")} \cup Results(body, {"Memory*"})
      i64 == {ArgV("pc")} \cup Results(body, {"i64"})
      double == {ArgV("st0")} \cup Results(body, {"double"})
      derived == Results(body, {"i64", "i32", "i1"})
      ptr == {ArgV("state")} \cup Results(body, {PointerType("i64")})
  IN CASE family = "barrier" ->
            {Call(b, <<m>>, "Memory*") :
               b \in {BarrierNames[1], BarrierNames[6]}, m \in mem}
       [] family = "mem" ->
            {Call("__remill_read_memory_64", <<ArgV("memory"), a>>, "i64") :
               a \in i64}
            \cup {Call("__remill_write_memory_64", <<m, ArgV("pc"), v>>,
                       "Memory*") : m \in mem, v \in i64}
            \cup {Call("__remill_read_memory_f80", <<ArgV("memory"), ArgV("pc")>>,
                       "double")}
            \cup {Call("__remill_write_memory_f80", <<ArgV("memory"), ArgV("pc"), v>>,
                       "Memory*") : v \in double}
       [] family = "undef" ->
            {Call("__remill_undefined_64", <<>>, "i64")}
            \cup {Instruction("trunc", "sub_0", "", <<x>>, "i32") :
                    x \in Results(body, {"i64"})}
            \cup {Instruction("zext", "sub_0", "", <<x>>, "i64") :
                    x \in Results(body, {"i32", "i1"})}
            \cup {Instruction("icmp", "sub_0", "", <<x, ArgV("pc")>>, "i1") :
                    x \in Results(body, {"i64"})}
            \cup {Instruction("inttoptr", "sub_0", "", <<x>>, PointerType("i64")) :
                    x \in i64}
            \cup {Instruction("store", "sub_0", "", <<v, p>>, "void") :
                    v \in i64 \cup derived, p \in ptr}

RECURSIVE BodiesOfLen(_, _)
BodiesOfLen(family, n) ==
  IF n = 0 THEN {<<>>}
  ELSE UNION {{Append(body, s) : s \in Steps(family, body)} :
                body \in BodiesOfLen(family, n - 1)}

\* The module of a lifted function with the body and, after it, a call that
\* uses every result of the body; every function called is declared.
BodyModule(body) ==
  LET results == {k \in DOMAIN body : body[k].type # "void"}
      operands == InOrder({InstV(4 * k) : k \in results},
                          [k \in DOMAIN body |-> InstV(4 * k)])
      called == {body[k].fn : k \in DOMAIN body} \ {""}
  IN Module([f \in {"sub_0", "sub_1"} \cup called |->
               IF f = "sub_0"
               THEN Function(FALSE, "external", {}, LiftedFunctionType)
               ELSE IF f = "sub_1"
               THEN Function(TRUE, "external", {}, LiftedFunctionType)
               ELSE Function(TRUE, "external", {}, IntrinsicType(f))],
            <<>>, <<>>,
            InstsOf(Append(body, Call("sub_1", operands, "Memory*"))), "")

BodyModules(family) ==
  {BodyModule(body) :
     body \in UNION {BodiesOfLen(family, n) : n \in 1..MaxInsts}}

\* The modules that hold the intrinsics a and b (one intrinsic when a = b),
\* each a declaration or a definition, with one call to each.
IntrinsicModule(a, a_decl, b, b_decl) ==
  LET body == IF a = b THEN <<PlainCall(a)>> ELSE <<PlainCall(a), PlainCall(b)>>
      m == BodyModule(body)
      Defined(f) == (f = a /\ ~a_decl) \/ (f = b /\ ~b_decl)
      defs == InOrder({f \in {a, b} : Defined(f)}, <<a, b>>)
      last == 4 * (Len(body) + 1)
  IN [m EXCEPT
        !.funcs = [f \in DOMAIN @ |->
                     IF Defined(f) THEN [@[f] EXCEPT !.decl = FALSE] ELSE @[f]],
        !.insts = [i \in DOMAIN @ \cup {last + 4 * k : k \in DOMAIN defs} |->
                     IF i \in DOMAIN @ THEN @[i]
                     ELSE Instruction("ret", defs[(i - last) \div 4], "", <<>>,
                                      "void")]]

IntrinsicModules ==
  {IntrinsicModule(a, a_decl, b, b_decl) :
     a \in WellKnownNames, b \in WellKnownNames,
     a_decl \in BOOLEAN, b_decl \in BOOLEAN}

\* The names of the ISEL globals of a module.
\* A module in which lifted code holds the address of the intrinsic a, as
\* an operand of the call to sub_1 or inside a cast constant that is that
\* operand, and with `called` also calls a.
ReferencedModule(a, called, cast) ==
  LET m == BodyModule(IF called THEN <<PlainCall(a)>> ELSE <<>>)
      last == IF called THEN 8 ELSE 4
  IN [m EXCEPT
        !.funcs = [f \in DOMAIN @ \cup {a} |->
                     IF f = a
                     THEN Function(TRUE, "external", {}, IntrinsicType(a))
                     ELSE @[f]],
        !.consts = IF cast
                   THEN [c \in {"ref"} |->
                           [op |-> "bitcast", refs |-> <<FuncV(a)>>]]
                   ELSE @,
        !.insts[last].args =
          Append(@, IF cast THEN ConstV("ref") ELSE FuncV(a))]

ReferencedModules ==
  {ReferencedModule(a, called, cast) :
     a \in WellKnownNames, called \in BOOLEAN, cast \in BOOLEAN}

\* A module in which the intrinsic y is a definition whose body calls the
\* intrinsic x, a declaration, and nothing else uses either.
ChainModule(x, y) ==
  LET m == BodyModule(<<>>)
  IN [m EXCEPT
        !.funcs = [f \in DOMAIN @ \cup {x, y} |->
                     IF f = x
                     THEN Function(TRUE, "external", {}, IntrinsicType(x))
                     ELSE IF f = y
                     THEN Function(FALSE, "external", {}, IntrinsicType(y))
                     ELSE @[f]],
        !.insts = [i \in DOMAIN @ \cup {8, 12} |->
                     IF i = 8 THEN [PlainCall(x) EXCEPT !.parent = y]
                     ELSE IF i = 12
                     THEN Instruction("ret", y, "", <<>>, "void")
                     ELSE @[i]]]

ChainModules ==
  {ChainModule(p[1], p[2]) :
     p \in {q \in Range(OtherIntrinsicNames) \X Range(OtherIntrinsicNames) :
              q[1] # q[2]}}

ISELNames == <<"ISEL_ADD", "ISEL_SUB", "ISEL_MOV", "ISEL_XOR">>

\* How an ISEL global is used: listed in llvm.used or not, and by how many
\* instructions of lifted code.
ISELUses == [used : BOOLEAN, live : 0..2]

\* A module with the ISELs ISELNames[k] for k in DOMAIN uses and a global
\* that is no ISEL; the first ISEL reaches its semantics function through a
\* cast; with pair, a constant expression over the first two ISELs that
\* nothing uses.
ISELModule(uses, basic_block, pair) ==
  LET n == Len(uses)
      name == [k \in 1..n |-> ISELNames[k]]
      listed == InOrder({k \in 1..n : uses[k].used}, [k \in 1..n |-> k])
      loads == UNION {{<<k, j>> : j \in 1..uses[k].live} : k \in 1..n}
      order == CHOOSE o \in Orders(loads) : TRUE
      F == [f \in {"sub_0", "SEM", "sub_1"}
                    \cup (IF basic_block THEN {"__remill_basic_block"} ELSE {}) |->
              IF f = "sub_1"
              THEN Function(FALSE, "external", {}, FunctionType("void", <<"i64", "i64">>))
              ELSE Function(FALSE, "external", {}, LiftedFunctionType)]
      G == [g \in Range(name) \cup {"table"}
                    \cup (IF listed # <<>> THEN {"llvm.used"} ELSE {}) |->
              IF g = "table" THEN [init |-> FuncV("sub_1"), linkage |-> "external"]
              ELSE IF g = "llvm.used"
              THEN [init |-> ConstV("used"), linkage |-> "appending"]
              ELSE IF g = ISELNames[1]
              THEN [init |-> ConstV("SEM_cast"), linkage |-> "external"]
              ELSE [init |-> FuncV("SEM"), linkage |-> "external"]]
      C == [c \in {"SEM_cast"} \cup {name[k] : k \in Range(listed)}
                    \cup (IF listed # <<>> THEN {"used"} ELSE {})
                    \cup (IF pair /\ n >= 2 THEN {"pair"} ELSE {}) |->
              IF c = "SEM_cast" THEN [op |-> "bitcast", refs |-> <<FuncV("SEM")>>]
              ELSE IF c = "used"
              THEN [op |-> "array",
                    refs |-> [j \in DOMAIN listed |-> ConstV(name[listed[j]])]]
              ELSE IF c = "pair"
              THEN [op |-> "icmp", refs |-> <<GlobalV(name[1]), GlobalV(name[2])>>]
              ELSE [op |-> "bitcast", refs |-> <<GlobalV(c)>>]]
  IN Module(F, G, C,
            InstsOf([j \in DOMAIN order |->
                       Instruction("load", "sub_0", "",
                                   <<GlobalV(name[order[j][1]])>>, "i64")]),
            "")

ISELModules ==
  {ISELModule(uses, basic_block, pair) :
     uses \in UNION {[1..n -> ISELUses] : n \in 1..MaxISELs},
     basic_block \in BOOLEAN, pair \in BOOLEAN}

\* The modules OptimizeModule is run on.
Modules ==
  ISELModules \cup IntrinsicModules \cup ReferencedModules
    \cup ChainModules \cup BodyModules("barrier") \cup BodyModules("mem")
    \cup BodyModules("undef")


----------------------------------------------------------------------------
(* Specifications.                                                         *)

\* The optimizer before OptimizeModule is called on an empty module.
OptIdle ==
  /\ funcs = <<>>
  /\ globals = <<>>
  /\ consts = <<>>
  /\ insts = <<>>
  /\ opc = 0
  /\ halt = ""
  /\ isels = <<>>
  /\ dead_stores = <<>>
  /\ pre = <<>>
  /\ step = ""
  /\ trace = <<>>

\* A lifter about to lift one instruction of the CFG.
LiftStart ==
  /\ cfg_inst \in {NULL} \cup NativeInstructions
  /\ inst \in Instructions
  /\ ops0 = inst.operands
  /\ mem_ref = NULL
  /\ imm_ref = NULL
  /\ disp_ref = NULL
  /\ mem_ref_used = FALSE
  /\ imm_ref_used = FALSE
  /\ disp_ref_used = FALSE
  /\ lpc = "start"
  /\ op_idx = 1
  /\ args = <<>>
  /\ status = "none"
  /\ lift_log = <<>>

InitLift == LiftStart /\ OptIdle

\* The lifter when every instruction has been lifted.
LiftIdle ==
  /\ cfg_inst = NULL
  /\ inst = NULL
  /\ ops0 = <<>>
  /\ mem_ref = NULL
  /\ imm_ref = NULL
  /\ disp_ref = NULL
  /\ mem_ref_used = FALSE
  /\ imm_ref_used = FALSE
  /\ disp_ref_used = FALSE
  /\ lpc = "idle"
  /\ op_idx = 1
  /\ args = <<>>
  /\ status = "none"
  /\ lift_log = <<>>

\* OptimizeModule is called on a lifted module.
InitOpt ==
  /\ LiftIdle
  /\ \E m \in Modules :
       /\ funcs = m.funcs
       /\ globals = m.globals
       /\ consts = m.consts
       /\ insts = m.insts
       /\ pre = m
  /\ opc = 1
  /\ halt = ""
  /\ isels = <<>>
  /\ dead_stores = <<>>
  /\ step = ""
  /\ trace = <<>>

NextOpt ==
  \/ FindISELsCall
  \/ RemoveIntrinsicsCall
  \/ RemoveISELsScan
  \/ RemoveISELsReturn
  \/ RunO3Call
  \/ LowerMemOpsCall
  \/ ReplaceBarrierCalls
  \/ RemoveUndefFuncCallsCall

SpecOpt == InitOpt /\ [][NextOpt]_vars

NextLift ==
  \/ LiftIntoBlockEnter
  \/ DelegateNoSemantics
  \/ LiftImmediateOperandCall
  \/ LiftAddressOperandCall
  \/ LiftRegisterOperandCall
  \/ DelegateReturn
  \/ LiftIntoBlockReturn

SpecLift == InitLift /\ [][NextLift]_vars

\* A lifter about to lift the first instruction of a block.
InitLiftSeq ==
  /\ LiftStart
  /\ OptIdle
  /\ cfg_inst \in BlockEntries
  /\ inst \in BlockInstructions

\* The instructions of a block, lifted one after the other by one lifter.
NextLiftSeq ==
  \/ NextLift
  \/ LiftIntoBlockNext

SpecLiftSeq == InitLiftSeq /\ [][NextLiftSeq]_vars

----------------------------------------------------------------------------
(* Properties of the instruction lifter.                                   *)

\* The operands the delegated lift has lowered so far.
Lifted == 1..Len(args)

Succeeded == lpc = "done" /\ status = kLiftedInstruction

HasMem == cfg_inst # NULL /\ cfg_inst.mem # NULL
HasImm == cfg_inst # NULL /\ cfg_inst.imm # NULL
HasDisp == cfg_inst # NULL /\ cfg_inst.disp # NULL
OnlyMem == HasMem /\ ~HasImm /\ ~HasDisp
OnlyImm == ~HasMem /\ HasImm /\ ~HasDisp
OnlyDisp == ~HasMem /\ ~HasImm /\ HasDisp

\* The value a cross-reference stands for: its target, masked by a nonzero
\* mask.
Resolved(x) ==
  [kind |-> "xref",
   val |-> IF x.mask = 0 THEN x.target_ea ELSE BitAnd(x.target_ea, x.mask),
   bits |-> address_size]

IsData(op) == op.type = "addr" /\ op.kind # "kControlFlowTarget"

\* Absolute, PC-relative or NEXT_PC-relative, with no index register.
IsDirectForm(op) == op.index_reg = "" /\ op.base_reg \in {"", "PC", "NEXT_PC"}

\* (the generic address of op with its displacement zeroed) + r.
ZeroedPlus(op, r) ==
  [kind |-> "add",
   lhs |-> [kind |-> "addr", base |-> op.base_reg, index |-> op.index_reg,
            disp |-> 0],
   rhs |-> r]

Count(s, x) == Cardinality({i \in DOMAIN s : s[i] = x})

IsFirstImmediate(i) ==
  ops0[i].type = "imm" /\ \A j \in 1..(i - 1) : ops0[j].type # "imm"

\* v holds r: r itself, r truncated, or an address with r added.
IsReference(v, r) ==
  \/ v = r
  \/ (v.kind = "trunc" /\ v.of = r)
  \/ (v.kind = "add" /\ v.rhs = r)

\* The raw displacement of op, read as uint64_t, is the target of the
\* memory reference.
DisplacementIsMemTarget(op) ==
  HasMem /\ static_cast_uint64(op.displacement) = cfg_inst.mem.target_ea

\* An operand the memory reference can go into.
MemMatches(op) ==
  IsData(op) /\ (IsDirectForm(op) \/ DisplacementIsMemTarget(op))

\* C1, as stated: with exactly one cross-reference on the CFG entry and an
\* operand of its category (an immediate operand for the immediate
\* reference, a data address operand of any shape for the other two), a
\* successful LiftIntoBlock has marked the reference used and the value of
\* some operand holds the resolved reference.
C1_Original ==
  Succeeded =>
    /\ (OnlyMem /\ \E i \in Lifted : IsData(ops0[i])) =>
         /\ mem_ref_used
         /\ \E i \in Lifted : IsReference(args[i], Resolved(cfg_inst.mem))
    /\ (OnlyImm /\ \E i \in Lifted : ops0[i].type = "imm") =>
         /\ imm_ref_used
         /\ \E i \in Lifted : IsReference(args[i], Resolved(cfg_inst.imm))
    /\ (OnlyDisp /\ \E i \in Lifted : IsData(ops0[i])) =>
         /\ disp_ref_used
         /\ \E i \in Lifted : IsReference(args[i], Resolved(cfg_inst.disp))

\* C1, amended: with exactly one cross-reference on the CFG entry, a
\* successful LiftIntoBlock has marked it used exactly when the instruction
\* has an operand it can go into (an immediate operand for the immediate
\* reference; a data address operand for the displacement reference; for the
\* memory reference a data address operand that is absolute, PC-relative or
\* NEXT_PC-relative without index, or one with a base or index register
\* whose raw displacement equals the target address).  That operand's value
\* is the resolved reference (truncated for a narrower immediate) or, for a
\* base/index operand, (generic address with zeroed displacement) + resolved
\* reference.  A reference with no such operand stays unused and is logged.
C1_OneReference ==
  Succeeded =>
    /\ OnlyMem =>
         /\ mem_ref_used <=> \E i \in Lifted : MemMatches(ops0[i])
         /\ \A i \in Lifted : MemMatches(ops0[i]) =>
              args[i] = IF IsDirectForm(ops0[i])
                        THEN Resolved(cfg_inst.mem)
                        ELSE ZeroedPlus(ops0[i], Resolved(cfg_inst.mem))
         /\ Count(lift_log, "Unused memory reference operand")
              = IF mem_ref_used THEN 0 ELSE 1
    /\ OnlyImm =>
         /\ imm_ref_used <=> \E i \in Lifted : ops0[i].type = "imm"
         /\ \A i \in Lifted : IsFirstImmediate(i) =>
              args[i] = IF ops0[i].arg_size < address_size
                        THEN CreateTrunc(Resolved(cfg_inst.imm), ops0[i].arg_size)
                        ELSE Resolved(cfg_inst.imm)
         /\ Count(lift_log, "Unused immediate operand reference")
              = IF imm_ref_used THEN 0 ELSE 1
    /\ OnlyDisp =>
         /\ disp_ref_used <=> \E i \in Lifted : IsData(ops0[i])
         /\ \A i \in Lifted : IsData(ops0[i]) =>
              args[i] = IF IsDirectForm(ops0[i])
                        THEN Resolved(cfg_inst.disp)
                        ELSE ZeroedPlus(ops0[i], Resolved(cfg_inst.disp))
         /\ Count(lift_log, "Unused displacement operand reference")
              = IF disp_ref_used THEN 0 ELSE 1

\* A successful lift with only a masked memory reference, consumed by a
\* base/index operand.
C1_Witness ==
  /\ Succeeded
  /\ OnlyMem
  /\ cfg_inst.mem.mask # 0
  /\ mem_ref_used
  /\ \E i \in Lifted :
       ~IsDirectForm(ops0[i]) /\ args[i] = ZeroedPlus(ops0[i], Resolved(cfg_inst.mem))

\* C3, as stated: every data memory operand whose raw displacement equals
\* the target of the memory reference gets the diagnostic and
\* (zeroed-displacement address) + (memory reference).
C3_Original ==
  \A i \in Lifted :
    (IsData(ops0[i]) /\ DisplacementIsMemTarget(ops0[i])) =>
      /\ args[i] = ZeroedPlus(ops0[i], Resolved(cfg_inst.mem))
      /\ Count(lift_log, "IDA probably incorrectly decoded memory operand") >= 1

\* C3, amended: a data memory operand that has a base or index register and
\* is not PC- or NEXT_PC-relative without index, whose raw displacement
\* equals the target of the memory reference, gets the diagnostic and
\* (zeroed-displacement address) + (memory reference) when the CFG entry has
\* no displacement reference; with a displacement reference it gets
\* (zeroed-displacement address) + (displacement reference) and no
\* diagnostic; an absolute or PC-relative operand gets the memory reference
\* on its own and no diagnostic.
C3_Misclassified ==
  /\ \A i \in Lifted :
       (IsData(ops0[i]) /\ DisplacementIsMemTarget(ops0[i])) =>
         args[i] = IF IsDirectForm(ops0[i]) THEN Resolved(cfg_inst.mem)
                   ELSE IF HasDisp
                        THEN ZeroedPlus(ops0[i], Resolved(cfg_inst.disp))
                        ELSE ZeroedPlus(ops0[i], Resolved(cfg_inst.mem))
  /\ Count(lift_log, "IDA probably incorrectly decoded memory operand")
       = Cardinality({i \in Lifted :
                        /\ IsData(ops0[i])
                        /\ DisplacementIsMemTarget(ops0[i])
                        /\ ~IsDirectForm(ops0[i])
                        /\ ~HasDisp})

\* A negative displacement that is the memory reference's target as
\* uint64_t, treated as a displacement reference.
C3_Witness ==
  \E i \in Lifted :
    /\ IsData(ops0[i])
    /\ ops0[i].displacement < 0
    /\ DisplacementIsMemTarget(ops0[i])
    /\ args[i] = ZeroedPlus(ops0[i], Resolved(cfg_inst.mem))
    /\ Count(lift_log, "IDA probably incorrectly decoded memory operand") = 1

\* Operand i got the memory, displacement or immediate reference.
SubstitutedMem(i) ==
  /\ IsData(ops0[i])
  /\ HasMem
  /\ \/ IsDirectForm(ops0[i]) /\ args[i] = mem_ref
     \/ /\ ~IsDirectForm(ops0[i])
        /\ ~HasDisp
        /\ args[i].kind = "add"
        /\ args[i].rhs = mem_ref

SubstitutedDisp(i) ==
  /\ IsData(ops0[i])
  /\ HasDisp
  /\ \/ IsDirectForm(ops0[i]) /\ ~HasMem /\ args[i] = disp_ref
     \/ /\ ~IsDirectForm(ops0[i])
        /\ args[i].kind = "add"
        /\ args[i].rhs = disp_ref

SubstitutedImm(i) ==
  ops0[i].type = "imm" /\ HasImm /\ args[i] = imm_ref

\* C4, as stated: each reference goes into at most one operand of the
\* instruction.
C4_Original ==
  /\ Cardinality({i \in Lifted : SubstitutedMem(i)}) <= 1
  /\ Cardinality({i \in Lifted : SubstitutedImm(i)}) <= 1
  /\ Cardinality({i \in Lifted : SubstitutedDisp(i)}) <= 1

\* C4, amended: the immediate reference goes into at most one operand, the
\* first immediate operand lifted; LiftAddressOperand does not read the used
\* flags, so two equal data address operands of one instruction get the same
\* value, reference included.
C4_Substitution ==
  /\ Cardinality({i \in Lifted : SubstitutedImm(i)}) <= 1
  /\ \A i \in Lifted : SubstitutedImm(i) => IsFirstImmediate(i)
  /\ \A i, j \in Lifted :
       (IsData(ops0[i]) /\ ops0[i] = ops0[j]) => args[i] = args[j]

\* Two address operands of one instruction that both hold the memory
\* reference.
C4_Witness ==
  /\ Len(args) = 2
  /\ SubstitutedMem(1)
  /\ SubstitutedMem(2)
  /\ mem_ref_used

\* C8: an immediate reference substituted into an operand whose argument
\* type is w bits wide is the resolved reference modulo 2^w when w is less
\* than the address width, and the resolved reference itself when w is the
\* address width.
C8_Truncation ==
  \A i \in Lifted :
    (HasImm /\ IsFirstImmediate(i)) =>
      LET w == ops0[i].arg_size
          r == Resolved(cfg_inst.imm)
      IN /\ w < address_size =>
              /\ args[i].kind = "trunc"
              /\ args[i].of = r
              /\ args[i].bits = w
              /\ args[i].val = r.val % Pow2(w)
         /\ w = address_size => args[i] = r

\* A truncation that changes the value, and a substitution at full width.
C8_Witness ==
  /\ Len(args) = 2
  /\ HasImm
  /\ ops0[1].type = "imm"
  /\ ops0[1].arg_size < address_size
  /\ args[1].val # Resolved(cfg_inst.imm).val
  /\ args[1].val = Resolved(cfg_inst.imm).val % Pow2(ops0[1].arg_size)
  /\ args[2].kind = "imm"


\* The immediate reference is about to go into operand i, whose argument
\* type is wider than an address.
FatalCase(i) ==
  /\ ops0[i].type = "imm"
  /\ HasImm
  /\ IsFirstImmediate(i)
  /\ ops0[i].arg_size > address_size

\* C11: the lift aborts in exactly one case, a present and unused immediate
\* reference meeting an operand wider than the address width: an aborted
\* lift stopped at such an operand and returned no value for it, and every
\* operand the lifter has returned a value for is not such an operand,
\* whatever diagnostics were logged on the way.
C11_OnlyFatal ==
  /\ lpc = "fatal" =>
       /\ op_idx \in 1..Len(ops0)
       /\ FatalCase(op_idx)
       /\ Len(args) = op_idx - 1
       /\ imm_ref_used
  /\ \A i \in Lifted : ~FatalCase(i) /\ args[i] # NULL
  /\ lpc \in {"post", "done"} /\ inst.sem = "ok" => Len(args) = Len(ops0)

\* The lift aborts at its second operand after a first one was lifted.
C11_Witness ==
  /\ lpc = "fatal"
  /\ Len(args) = 1
  /\ ops0[2].arg_size > address_size

\* The status the delegated lift returns for the instruction.
DelegatedStatus ==
  IF inst.sem = "ok" THEN kLiftedInstruction
  ELSE IF inst.sem = "invalid" THEN kLiftedInvalidInstruction
  ELSE kLiftedUnsupportedInstruction

\* The diagnostic `text` was logged once if `unused` holds and never
\* otherwise.
LoggedIff(text, unused) ==
  Count(lift_log, text) = IF unused THEN 1 ELSE 0

\* C13: when LiftIntoBlock has returned, the unused-reference diagnostic of
\* each kind has been logged exactly if the delegated lift returned
\* kLiftedInstruction, the reference of that kind is present and its used
\* flag is false; nothing is logged for a lift that did not succeed, and
\* the status returned is the one the delegated lift returned.
C13_UnusedDiagnostics ==
  lpc = "done" =>
    /\ status = DelegatedStatus
    /\ LoggedIff("Unused memory reference operand",
                 status = kLiftedInstruction /\ mem_ref # NULL /\ ~mem_ref_used)
    /\ LoggedIff("Unused immediate operand reference",
                 status = kLiftedInstruction /\ imm_ref # NULL /\ ~imm_ref_used)
    /\ LoggedIff("Unused displacement operand reference",
                 status = kLiftedInstruction /\ disp_ref # NULL /\ ~disp_ref_used)

\* A successful lift that used the displacement reference and logged the
\* other two as unused.
C13_Witness ==
  /\ Succeeded
  /\ disp_ref # NULL /\ disp_ref_used
  /\ Count(lift_log, "Unused memory reference operand") = 1
  /\ Count(lift_log, "Unused immediate operand reference") = 1
  /\ Count(lift_log, "Unused displacement operand reference") = 0

\* A lift without semantics that left three references unused and logged
\* nothing.
C13_Silent ==
  /\ lpc = "done"
  /\ status # kLiftedInstruction
  /\ mem_ref # NULL /\ imm_ref # NULL /\ disp_ref # NULL
  /\ lift_log = <<>>

\* No operand before operand i has taken the displacement reference.
DispUnusedAt(i) ==
  \A j \in 1..(i - 1) :
    ~(IsData(ops0[j]) /\ (~IsDirectForm(ops0[j]) \/ ~HasMem))

\* The displacement reference went into operand i the general way: the
\* displacement is zeroed, the value is (generic address) + reference, the
\* flag is set, and the memory reference was left to the other operands.
GeneralDisplacement(i) ==
  /\ args[i] = ZeroedPlus(ops0[i], Resolved(cfg_inst.disp))
  /\ inst.operands[i].displacement = 0
  /\ disp_ref_used
  /\ mem_ref_used =>
       \E j \in Lifted \ {i} : IsData(ops0[j]) /\ IsDirectForm(ops0[j])

\* C15, as stated: the general form is every data operand that has a base
\* or an index register and is not PC with no index.
C15_Original ==
  \A i \in Lifted :
    (/\ IsData(ops0[i])
     /\ ops0[i].base_reg # "" \/ ops0[i].index_reg # ""
     /\ ~(ops0[i].base_reg = "PC" /\ ops0[i].index_reg = "")
     /\ HasDisp
     /\ DispUnusedAt(i)) => GeneralDisplacement(i)

\* C15: for a data operand that has an index register, or a base register
\* other than PC and NEXT_PC, and a displacement reference that is present
\* and unused, LiftAddressOperand zeroes the displacement, returns (generic
\* address with the zeroed displacement) + (resolved displacement
\* reference), marks the displacement reference used and does not consume
\* the memory reference.
C15_GeneralForm ==
  \A i \in Lifted :
    (/\ IsData(ops0[i])
     /\ ~IsDirectForm(ops0[i])
     /\ HasDisp
     /\ DispUnusedAt(i)) => GeneralDisplacement(i)

\* An indexed operand took the displacement reference while a memory
\* reference whose target is the raw displacement was there and stays
\* unused.
C15_Witness ==
  /\ Succeeded
  /\ Len(args) = 1
  /\ HasDisp /\ HasMem
  /\ ops0[1].index_reg # ""
  /\ DisplacementIsMemTarget(ops0[1])
  /\ GeneralDisplacement(1)
  /\ ~mem_ref_used

\* The cross-reference the CFG entry holds in `field`, NULL when there is
\* no CFG entry.
XrefOf(field) == IF cfg_inst = NULL THEN NULL ELSE cfg_inst[field]

\* ref is what LiftIntoBlock fetched for the cross-reference x when
\* Address(x) is the address a present cross-reference resolves to.
Fetched(ref, x, Address(_)) ==
  IF x = NULL THEN ref = NULL
  ELSE ref = [kind |-> "xref", val |-> Address(x), bits |-> address_size]

\* The immediate reference is replaced by its truncation once it has gone
\* into a narrower operand.
ImmFetched(Address(_)) ==
  \/ Fetched(imm_ref, XrefOf("imm"), Address)
  \/ /\ imm_ref.kind = "trunc"
     /\ imm_ref_used
     /\ Fetched(imm_ref.of, XrefOf("imm"), Address)

\* target_ea AND mask, whatever the value of the mask.
MaskedAlways(x) == BitAnd(x.target_ea, x.mask)

\* target_ea AND mask for a nonzero mask, target_ea for a mask of zero.
MaskedNonzero(x) ==
  IF x.mask # 0 THEN BitAnd(x.target_ea, x.mask) ELSE x.target_ea

\* The three references are what GetAddress returns for the CFG entry, the
\* CFG entry is as it was, and equal cross-references gave equal results.
GetAddressResults(Address(_)) ==
  lpc # "start" =>
    /\ Fetched(mem_ref, XrefOf("mem"), Address)
    /\ Fetched(disp_ref, XrefOf("disp"), Address)
    /\ ImmFetched(Address)
    /\ XrefOf("mem") = XrefOf("disp") => mem_ref = disp_ref

\* C16, as stated: the mask of a present cross-reference is applied
\* whatever its value.
C16_Original == GetAddressResults(MaskedAlways)

\* C16: GetAddress returns no reference for an absent cross-reference; for
\* a present one it resolves (target_ea AND mask) when the mask is not
\* zero and target_ea when the mask is zero; the references fetched stay
\* what GetAddress returned for the unchanged CFG entry, and the same
\* cross-reference gives the same result.
C16_GetAddress == GetAddressResults(MaskedNonzero)

\* A masked memory reference, an unmasked displacement reference and an
\* absent immediate reference have been fetched.
C16_Witness ==
  /\ lpc = "delegate"
  /\ HasMem /\ HasDisp /\ ~HasImm
  /\ cfg_inst.mem.mask # 0
  /\ mem_ref.val = BitAnd(cfg_inst.mem.target_ea, cfg_inst.mem.mask)
  /\ mem_ref.val # cfg_inst.mem.target_ea
  /\ cfg_inst.disp.mask = 0
  /\ disp_ref.val = cfg_inst.disp.target_ea
  /\ imm_ref = NULL

\* The next operand is an immediate that no reference goes into.
NextIsPlainImmediate ==
  /\ lpc = "delegate"
  /\ inst.sem = "ok"
  /\ op_idx <= Len(inst.operands)
  /\ inst.operands[op_idx].type = "imm"
  /\ ~(imm_ref # NULL /\ ~imm_ref_used)

\* Some segment of the CFG contains the raw immediate of an address-wide
\* operand.
IsMissedCandidate(op) ==
  /\ op.size = address_size
  /\ 4096 <= op.imm_val
  /\ \E s \in cfg_segments : s.ea <= op.imm_val /\ op.imm_val < s.ea + s.size

\* C17: lifting an immediate operand that no reference goes into gives the
\* generic lowering of the operand and leaves the three references, the
\* three used flags and the operand as they were, whether or not a segment
\* contains the raw immediate; all the segment decides is whether the
\* missed-cross-reference diagnostic is logged.  The status LiftIntoBlock
\* returns is the one the delegated lift returned, whatever was logged.
C17_DiagnosticOnly ==
  [][/\ NextIsPlainImmediate =>
          /\ args' = Append(args, GenericLiftImmediateOperand(inst.operands[op_idx]))
          /\ UNCHANGED <<mem_ref, imm_ref, disp_ref, mem_ref_used,
                         imm_ref_used, disp_ref_used, inst, status>>
          /\ lpc' = "delegate"
          /\ lift_log' =
               IF IsMissedCandidate(inst.operands[op_idx])
               THEN Append(lift_log, "missed cross-reference candidate")
               ELSE lift_log
     /\ lpc' = "post" => status' = DelegatedStatus
     /\ lpc = "post" => status' = status]_vars

\* A successful lift of two immediates, the first in a segment and the
\* second in none: one diagnostic, two generic lowerings, no flag set.
C17_Witness ==
  /\ Succeeded
  /\ Len(args) = 2
  /\ IsMissedCandidate(ops0[1])
  /\ ops0[2].type = "imm" /\ ops0[2].size = address_size
  /\ 4096 <= ops0[2].imm_val /\ ~IsMissedCandidate(ops0[2])
  /\ args[1] = GenericLiftImmediateOperand(ops0[1])
  /\ args[2] = GenericLiftImmediateOperand(ops0[2])
  /\ Count(lift_log, "missed cross-reference candidate") = 1
  /\ ~mem_ref_used /\ ~imm_ref_used /\ ~disp_ref_used

\* The next operand is an address operand.
NextIsAddress ==
  /\ lpc = "delegate"
  /\ inst.sem = "ok"
  /\ op_idx <= Len(inst.operands)
  /\ inst.operands[op_idx].type = "addr"

\* C19: LiftAddressOperand on a control-flow target returns the generic
\* lowering of the operand and leaves the three used flags, the three
\* references and the operand's displacement as they were, whatever
\* references the instruction carries.
C19_ControlFlowTarget ==
  [][(NextIsAddress /\ inst.operands[op_idx].kind = "kControlFlowTarget") =>
       /\ args' = Append(args, GenericLiftAddressOperand(inst.operands[op_idx]))
       /\ UNCHANGED <<mem_ref, imm_ref, disp_ref, mem_ref_used,
                      imm_ref_used, disp_ref_used, inst, lift_log>>
       /\ lpc' = "delegate"]_vars

\* A branch whose instruction carries all three references: generic
\* lowering, displacement kept, no flag set, three diagnostics.
C19_Witness ==
  /\ Succeeded
  /\ Len(args) = 1
  /\ ops0[1].type = "addr" /\ ops0[1].kind = "kControlFlowTarget"
  /\ HasMem /\ HasImm /\ HasDisp
  /\ args[1] = GenericLiftAddressOperand(ops0[1])
  /\ inst.operands[1].displacement = ops0[1].displacement
  /\ ops0[1].displacement # 0
  /\ ~mem_ref_used /\ ~imm_ref_used /\ ~disp_ref_used
  /\ Len(lift_log) = 3

\* The step lifts the next operand the direct way: the memory reference
\* itself if there is one, else the displacement reference itself if there
\* is one, else the generic lowering; the operand keeps its displacement
\* and nothing is added or logged.
DirectStep ==
  /\ args' = Append(args, IF mem_ref # NULL THEN mem_ref
                          ELSE IF disp_ref # NULL THEN disp_ref
                          ELSE GenericLiftAddressOperand(inst.operands[op_idx]))
  /\ mem_ref_used' = (mem_ref_used \/ mem_ref # NULL)
  /\ disp_ref_used' = (disp_ref_used \/ (mem_ref = NULL /\ disp_ref # NULL))
  /\ UNCHANGED <<mem_ref, imm_ref, disp_ref, imm_ref_used, inst, lift_log>>
  /\ lpc' = "delegate"

\* The next operand is a data operand with no index register and base b.
NextIsDataWithBase(b) ==
  /\ NextIsAddress
  /\ inst.operands[op_idx].kind # "kControlFlowTarget"
  /\ inst.operands[op_idx].index_reg = ""
  /\ inst.operands[op_idx].base_reg = b

\* C20: a data operand whose base is NEXT_PC and that has no index is
\* lifted like the operand with no base and no index and the operand with
\* base PC and no index: the memory reference is returned directly if
\* present, else the displacement reference directly if present, with no
\* zeroing of the displacement and no addition.
C20_NextPC ==
  [][/\ NextIsDataWithBase("NEXT_PC") => DirectStep
     /\ NextIsDataWithBase("PC") => DirectStep
     /\ NextIsDataWithBase("") => DirectStep]_vars

\* A NEXT_PC-relative operand took the displacement reference itself and
\* kept its displacement.
C20_Witness ==
  /\ Succeeded
  /\ Len(args) = 1
  /\ IsData(ops0[1])
  /\ ops0[1].base_reg = "NEXT_PC" /\ ops0[1].index_reg = ""
  /\ OnlyDisp
  /\ args[1] = Resolved(cfg_inst.disp)
  /\ disp_ref_used
  /\ inst.operands[1].displacement = ops0[1].displacement
  /\ ops0[1].displacement # 0

\* What LiftIntoBlock fetches for the cross-reference the CFG entry holds in
\* `field`: nothing without a CFG entry or without the cross-reference.
FetchedFor(field) ==
  IF XrefOf(field) = NULL THEN NULL ELSE Resolved(XrefOf(field))

\* C21: whatever references and flags the previous LiftIntoBlock call left
\* in the lifter, the step that opens a call and hands over to the
\* delegated lift leaves the three used flags false and the three
\* references those resolved from the CFG entry of the instruction being
\* lifted, all three absent when it has no CFG entry.
C21_NoLeak ==
  [][lpc = "start" =>
       /\ lpc' = "delegate"
       /\ UNCHANGED <<cfg_inst, inst>>
       /\ ~mem_ref_used' /\ ~imm_ref_used' /\ ~disp_ref_used'
       /\ mem_ref' = FetchedFor("mem")
       /\ imm_ref' = FetchedFor("imm")
       /\ disp_ref' = FetchedFor("disp")]_vars

\* A call opens on an instruction without a CFG entry while the lifter
\* still holds what the previous instruction left: a used memory
\* reference and a used, truncated immediate reference.
C21_Witness ==
  /\ lpc = "start"
  /\ cfg_inst = NULL
  /\ mem_ref # NULL /\ mem_ref_used
  /\ imm_ref.kind = "trunc" /\ imm_ref_used
  /\ disp_ref # NULL /\ ~disp_ref_used

\* A call opens on an instruction whose CFG entry has other references
\* than the ones the lifter still holds.
C21_OtherEntry ==
  /\ lpc = "start"
  /\ cfg_inst # NULL
  /\ cfg_inst.mem = NULL /\ mem_ref # NULL /\ mem_ref_used
  /\ cfg_inst.disp # NULL /\ disp_ref = NULL

\* The resolved references the value v contains.
RECURSIVE RefsIn(_)
RefsIn(v) ==
  CASE v.kind = "xref" -> 1
    [] v.kind = "trunc" -> RefsIn(v.of)
    [] v.kind = "add" -> RefsIn(v.lhs) + RefsIn(v.rhs)
    [] OTHER -> 0

\* A used flag is true only if the lifter holds the reference and the CFG
\* entry has the cross-reference.
UsedOnlyIfPresent ==
  /\ mem_ref_used => (mem_ref # NULL /\ (lpc # "start" => HasMem))
  /\ imm_ref_used => (imm_ref # NULL /\ (lpc # "start" => HasImm))
  /\ disp_ref_used => (disp_ref # NULL /\ (lpc # "start" => HasDisp))

\* The used flags the step changes.
FlagsChanged ==
  (IF mem_ref_used' # mem_ref_used THEN 1 ELSE 0)
  + (IF imm_ref_used' # imm_ref_used THEN 1 ELSE 0)
  + (IF disp_ref_used' # disp_ref_used THEN 1 ELSE 0)

\* The step is one call of LiftImmediateOperand or LiftAddressOperand.
OperandLiftStep ==
  /\ lpc = "delegate"
  /\ inst.sem = "ok"
  /\ op_idx <= Len(inst.operands)
  /\ inst.operands[op_idx].type \in {"imm", "addr"}

\* C22: in every state a used flag is true only if its reference is
\* present; and one call of LiftImmediateOperand or LiftAddressOperand
\* changes at most one of the three used flags, only from false to true,
\* and the value it returns contains at most one resolved reference, none
\* when it changed no flag from false to true and took no reference that
\* was already used.
C22_OneReferencePerOperand ==
  /\ []UsedOnlyIfPresent
  /\ [][OperandLiftStep =>
          /\ FlagsChanged <= 1
          /\ mem_ref_used => mem_ref_used'
          /\ imm_ref_used => imm_ref_used'
          /\ disp_ref_used => disp_ref_used'
          /\ lpc' = "delegate" =>
               /\ Len(args') = Len(args) + 1
               /\ RefsIn(args'[Len(args')]) <= 1
               /\ (RefsIn(args'[Len(args')]) = 1) =>
                    (mem_ref_used' \/ imm_ref_used' \/ disp_ref_used')]_vars

\* Both address references are present and both have been used, each by
\* one operand, and each value holds one reference.
C22_Witness ==
  /\ Succeeded
  /\ Len(args) = 2
  /\ mem_ref_used /\ disp_ref_used /\ ~imm_ref_used
  /\ HasMem /\ HasDisp /\ HasImm
  /\ RefsIn(args[1]) = 1 /\ RefsIn(args[2]) = 1
  /\ args[1] # args[2]

----------------------------------------------------------------------------
(* Properties of the Module Optimizer.                                     *)

\* The call of OptimizeModule named has just returned: pre is the module it
\* was given and gModule the one it left.
JustReturned(name) ==
  /\ halt = ""
  /\ step = name

Last(seq) == seq[Len(seq)]

\* The instruction of m with the operands mapped by Op.
WithOperands(m, u, Op(_)) ==
  [m.insts[u] EXCEPT !.args = [j \in DOMAIN @ |-> Op(@[j])]]

\* The value a use of v is left with once every barrier call has handed on
\* its memory pointer argument.
RECURSIVE BarrierRoot(_, _)
BarrierRoot(m, v) ==
  IF v.k = "inst" /\ v.id \in CallsTo(m, Range(BarrierNames))
  THEN BarrierRoot(m, m.insts[v.id].args[1])
  ELSE v

\* C7: when the six ReplaceBarrier calls have returned, no call instruction
\* to a barrier intrinsic is left, and every other instruction is as before
\* except that an operand that was the result of a barrier call is now the
\* memory pointer argument of that call, followed back through a chain of
\* barrier calls to the value that is no barrier call; this for every order
\* in which the callers are visited.
C7_BarrierLowered ==
  JustReturned("ReplaceBarrier") =>
    LET calls == CallsTo(pre, Range(BarrierNames))
        Root(v) == BarrierRoot(pre, v)
    IN /\ CallsTo(gModule, Range(BarrierNames)) = {}
       /\ DOMAIN insts = DOMAIN pre.insts \ calls
       /\ \A u \in DOMAIN insts : insts[u] = WithOperands(pre, u, Root)

\* A chain of two barrier calls, both used by a third instruction, has been
\* lowered.
C7_Witness ==
  /\ JustReturned("ReplaceBarrier")
  /\ \E c1, c2 \in CallsTo(pre, Range(BarrierNames)) :
       /\ pre.insts[c2].args[1] = InstV(c1)
       /\ \E u \in DOMAIN insts :
            {InstV(c1), InstV(c2)} \subseteq Range(pre.insts[u].args)

\* The memory operation LowerMemOps lowers the call c of m as.
MemOpOf(m, c) ==
  MemOps[CHOOSE k \in DOMAIN MemOps : MemOps[k].name = m.insts[c].fn]

\* The value a use of v is left with by LowerMemOps: for the result of a
\* read call the value loaded for it, for the result of a write call what
\* its memory pointer argument is left with.
RECURSIVE MemOpValue(_, _)
MemOpValue(m, v) ==
  IF v.k = "inst" /\ v.id \in CallsTo(m, Range(MemOpNames))
  THEN IF MemOpOf(m, v.id).kind = "write"
       THEN MemOpValue(m, m.insts[v.id].args[1])
       ELSE IF MemOpOf(m, v.id).val_type = "x86_fp80"
       THEN InstV(v.id + 3) ELSE InstV(v.id + 2)
  ELSE v

\* The instructions LowerMemOps puts in the place of the call c of m, by id.
Lowered(m, c) ==
  LET mem_op == MemOpOf(m, c)
      parent == m.insts[c].parent
      f80 == mem_op.val_type = "x86_fp80"
      addr == MemOpValue(m, m.insts[c].args[2])
      ptr == Instruction("inttoptr", parent, "", <<addr>>,
                         mem_op.val_type \o "*")
      access ==
        IF mem_op.kind = "read"
        THEN Instruction("load", parent, "", <<InstV(c + 1)>>, mem_op.val_type)
        ELSE Instruction("store", parent, "",
                         <<IF f80 THEN InstV(c + 3)
                           ELSE MemOpValue(m, m.insts[c].args[3]),
                           InstV(c + 1)>>, "void")
      conv ==
        IF mem_op.kind = "read"
        THEN Instruction("fptrunc", parent, "", <<InstV(c + 2)>>,
                         m.funcs[mem_op.name].type.ret)
        ELSE Instruction("fpext", parent, "",
                         <<MemOpValue(m, m.insts[c].args[3])>>, "x86_fp80")
  IN [i \in IF f80 THEN {c + 1, c + 2, c + 3} ELSE {c + 1, c + 2} |->
        IF i = c + 1 THEN ptr ELSE IF i = c + 2 THEN access ELSE conv]

\* LowerMemOps has returned and left the module as C6 says.
MemOpsLowered ==
  LET calls == CallsTo(pre, Range(MemOpNames))
      Value(v) == MemOpValue(pre, v)
  IN /\ CallsTo(gModule, Range(MemOpNames)) = {}
     /\ DOMAIN insts = (DOMAIN pre.insts \ calls)
                         \cup UNION {DOMAIN Lowered(pre, c) : c \in calls}
     /\ \A c \in calls : \A i \in DOMAIN Lowered(pre, c) :
          insts[i] = Lowered(pre, c)[i]
     /\ \A u \in DOMAIN pre.insts \ calls : insts[u] = WithOperands(pre, u, Value)

\* C6 as stated: the memory read/write intrinsics are 16, and when
\* LowerMemOps has returned each call to one of them is lowered.
C6_Original ==
  JustReturned("LowerMemOps") =>
    MemOpsLowered /\ Cardinality(Range(MemOpNames)) = 16

\* C6: LowerMemOps lowers 14 intrinsics, the reads and writes of 8, 16, 32
\* and 64 bit integers and of 32, 64 and 80 bit floats.  When it has
\* returned, no direct call to one of them is left; in the place of each
\* call there is an inttoptr of argument 1 and one load from it (read) or
\* one store to it (write), for x86_fp80 an fptrunc of the loaded value to
\* the intrinsic's return type or an fpext of the stored value to x86_fp80,
\* and nothing more; every other instruction is as before except that an
\* operand that was the result of a read call is the loaded value and one
\* that was the result of a write call is that call's argument 0, followed
\* through chains of calls.
C6_MemOpsLowered ==
  JustReturned("LowerMemOps") =>
    MemOpsLowered /\ Cardinality(Range(MemOpNames)) = 14

\* A read whose address is the result of another call to the same intrinsic
\* and an 80 bit access have been lowered.
C6_Witness ==
  /\ JustReturned("LowerMemOps")
  /\ \E c1, c2 \in CallsTo(pre, Range(MemOpNames)) :
       /\ pre.insts[c1].fn = pre.insts[c2].fn
       /\ InstV(c1) \in Range(pre.insts[c2].args)
  /\ \E c \in CallsTo(pre, Range(MemOpNames)) : c + 3 \in DOMAIN insts

\* The instructions of m the while loop of ReplaceUndefIntrinsic gets to
\* from the calls to the undefined-value intrinsics: the users of the calls
\* and the users of every compare and cast among them.
RECURSIVE UndefReached(_, _)
UndefReached(m, S) ==
  LET more == S \cup UNION {UsersOf(m.insts, InstV(i)) :
                             i \in {j \in S : \/ isa_CmpInst(m.insts[j])
                                              \/ isa_CastInst(m.insts[j])}}
  IN IF more = S THEN S ELSE UndefReached(m, more)

UndefUsers(m) ==
  UndefReached(m, UNION {UsersOf(m.insts, InstV(c)) :
                           c \in CallsTo(m, Range(UndefNames))})

Stores(m) == {i \in DOMAIN m.insts : isa_StoreInst(m.insts[i])}

\* v is the result of a call to an undefined-value intrinsic, or of a cast
\* or compare all of whose operands are.
RECURSIVE WhollyUndef(_, _)
WhollyUndef(m, v) ==
  /\ v.k = "inst"
  /\ \/ v.id \in CallsTo(m, Range(UndefNames))
     \/ /\ isa_CmpInst(m.insts[v.id]) \/ isa_CastInst(m.insts[v.id])
        /\ \A j \in DOMAIN m.insts[v.id].args :
             WhollyUndef(m, m.insts[v.id].args[j])

\* C5 as stated: when RemoveUndefFuncCalls has returned, a store is gone if
\* its stored value is wholly derived from undefined-value calls, and is
\* still there if its stored value is not.
C5_Original ==
  JustReturned("RemoveUndefFuncCalls") =>
    \A s \in Stores(pre) :
      s \notin DOMAIN insts <=> WhollyUndef(pre, pre.insts[s].args[1])

\* C5: when RemoveUndefFuncCalls has returned, the stores that are gone are
\* those the propagation got to: a store that uses, as stored value or as
\* address, the result of an undefined-value call or of a compare or cast
\* reached from one, whatever the other operands of the compare and of the
\* store are.  Every other store is still there.
C5_StoresRemoved ==
  JustReturned("RemoveUndefFuncCalls") =>
    /\ \A s \in Stores(pre) : s \notin DOMAIN insts <=> s \in UndefUsers(pre)
    /\ CallsTo(gModule, Range(UndefNames)) = {}

\* A store of a compare of an undefined value with a defined one, and a
\* store of a defined value to an address cast from an undefined value, have
\* been removed.
C5_Witness ==
  /\ JustReturned("RemoveUndefFuncCalls")
  /\ \E s \in Stores(pre) \ DOMAIN insts :
       ~WhollyUndef(pre, pre.insts[s].args[1])

\* C2 as stated, in the part a finite run decides: an iteration of the while
\* loop of RemoveISELs that erases no global is the last one, so that the
\* loop is left with the ISELs of two or more uses in the module.
C2_Original ==
  [][(/\ AtStage("RemoveISELs")
      /\ isels # <<>>
      /\ DOMAIN globals' = DOMAIN globals
      /\ halt' = "")
     => isels' = <<>>]_vars

\* C9: the calls of OptimizeModule that have returned are at every moment
\* the first ones of FindISELs, RemoveIntrinsics, RemoveISELs, RunO3,
\* RemoveIntrinsics, LowerMemOps, ReplaceBarrier (all six),
\* RemoveUndefFuncCalls, each once, the next one to run is the one after
\* them, and when OptimizeModule has returned they are all eight.
C9_StageOrder ==
  LET order == <<"FindISELs", "RemoveIntrinsics", "RemoveISELs", "RunO3",
                 "RemoveIntrinsics", "LowerMemOps", "ReplaceBarrier",
                 "RemoveUndefFuncCalls">>
  IN /\ Len(trace) <= Len(order)
     /\ trace = SubSeq(order, 1, Len(trace))
     /\ opc = Len(trace) + 1
     /\ opc <= Len(order) => OptimizeModuleStages[opc] = order[opc]
     /\ opc = Returned => trace = order

\* OptimizeModule has returned.
C9_Witness ==
  /\ opc = Returned
  /\ halt = ""
  /\ Len(trace) = 8
  /\ trace[4] = "RunO3"

\* A function named in names is in the module with a body.
HasBody(m, names) ==
  \E f \in names \cap DOMAIN m.funcs : ~m.funcs[f].decl

\* None of the functions named is in the module.
Absent(m, names) == names \cap DOMAIN m.funcs = {}

\* C10 as stated: a CHECK ends the run in the barrier lowering only, and
\* exactly when a barrier intrinsic has a body.
C10_Original ==
  /\ halt = "aborted" =>
       /\ OptimizeModuleStages[opc] = "ReplaceBarrier"
       /\ HasBody(pre, Range(BarrierNames))
  /\ JustReturned("ReplaceBarrier") => ~HasBody(pre, Range(BarrierNames))

\* C10: a CHECK ends the run in LowerMemOps exactly when one of the 14
\* memory read/write intrinsics is in the module with a body as LowerMemOps
\* starts, and in the barrier lowering exactly when one of the six barrier
\* intrinsics is in the module with a body as that starts; no CHECK ends
\* the run anywhere else.  A call of OptimizeModule whose intrinsics are all
\* absent returns with the module as it found it.
C10_Aborts ==
  /\ halt = "aborted" =>
       \/ /\ OptimizeModuleStages[opc] = "LowerMemOps"
          /\ HasBody(pre, Range(MemOpNames))
       \/ /\ OptimizeModuleStages[opc] = "ReplaceBarrier"
          /\ HasBody(pre, Range(BarrierNames))
  /\ JustReturned("LowerMemOps") => ~HasBody(pre, Range(MemOpNames))
  /\ JustReturned("ReplaceBarrier") => ~HasBody(pre, Range(BarrierNames))
  /\ JustReturned("LowerMemOps") /\ Absent(pre, Range(MemOpNames))
       => gModule = pre
  /\ JustReturned("ReplaceBarrier") /\ Absent(pre, Range(BarrierNames))
       => gModule = pre
  /\ JustReturned("RemoveUndefFuncCalls") /\ Absent(pre, Range(UndefNames))
       => gModule = pre
  /\ (/\ JustReturned("RemoveIntrinsics")
      /\ Absent(pre, Range(OtherIntrinsicNames))
      /\ "llvm.used" \notin DOMAIN pre.globals)
       => gModule = pre
  /\ JustReturned("FindISELs") /\ Absent(pre, {"__remill_basic_block"})
       => isels = <<>> /\ gModule = pre

\* A CHECK has ended the run in LowerMemOps, in a module in which no barrier
\* intrinsic has a body.
C10_Witness ==
  /\ halt = "aborted"
  /\ OptimizeModuleStages[opc] = "LowerMemOps"
  /\ ~HasBody(gModule, Range(BarrierNames))

\* Every ISEL that FindISELs discovered has two or more uses.
AllISELsInUse ==
  \A k \in DOMAIN isels : NumUsesOfGlobal(gModule, isels[k]) >= 2

\* C12, as stated: RemoveISELs on a module where every discovered ISEL has
\* two or more uses completes, and leaves every function, global (with its
\* linkage), constant and instruction as it was.
C12_Original ==
  [][(AtStage("RemoveISELs") /\ AllISELsInUse) =>
       /\ UNCHANGED <<funcs, globals, consts, insts>>
       /\ halt' = ""
       /\ opc' = opc + 1]_vars

\* C14: no stage of OptimizeModule deletes a well-known intrinsic that
\* still has a use: whenever such an intrinsic is no longer in the module,
\* no call, operand, initializer or constant of the module refers to it; a
\* use that remains has its intrinsic with it.
C14_NoUsedIntrinsicDeleted ==
  halt = "" =>
    \A f \in WellKnownNames :
      f \notin DOMAIN funcs => NumUsesOfFunction(gModule, f) = 0

\* LowerMemOps has lowered the calls to a memory intrinsic whose address
\* lifted code holds: the intrinsic stays, with that use and no call.
C14_Witness ==
  /\ JustReturned("LowerMemOps")
  /\ \E a \in Range(MemOpNames) :
       /\ CallsTo(pre, {a}) # {}
       /\ CallsTo(gModule, {a}) = {}
       /\ a \in DOMAIN funcs
       /\ InstUses(insts, FuncV(a)) # {}

\* The last call of OptimizeModule has deleted an intrinsic.
C14_Removed ==
  /\ opc = Returned
  /\ \E a \in WellKnownNames :
       /\ a \notin DOMAIN funcs
       /\ a \in DOMAIN pre.funcs

\* Run on the module it has just left, RemoveIntrinsics leaves it as it is.
RemoveIntrinsicsIdempotent ==
  JustReturned("RemoveIntrinsics") =>
    \A ub \in UBOutcomes : RemoveIntrinsics(gModule, ub) = gModule

\* Run on the module it has just left, LowerMemOps leaves it as it is.
LowerMemOpsIdempotent ==
  JustReturned("LowerMemOps") =>
    \A prio \in Orders(CallsTo(gModule, Range(MemOpNames))) :
      LowerMemOps(gModule, prio) = gModule

\* Run on the module they have just left, the six ReplaceBarrier calls
\* leave it as it is.
ReplaceBarrierIdempotent ==
  JustReturned("ReplaceBarrier") =>
    \A prio \in Orders(CallsTo(gModule, Range(BarrierNames))) :
      ReplaceBarriers(gModule, BarrierNames, prio) = gModule

\* Run on the module it has just left, RemoveUndefFuncCalls leaves it as it
\* is.
RemoveUndefFuncCallsIdempotent ==
  JustReturned("RemoveUndefFuncCalls") =>
    \A prio \in Orders(Downstream(insts, CallsTo(gModule, Range(UndefNames)))),
       ub \in UBOutcomes :
      RemoveUndefFuncCalls(gModule, prio, ub).module = gModule

\* C18, as stated: each of the four stages, run a second time on the
\* module its first run left, leaves that module exactly as it is.
C18_Original ==
  /\ RemoveIntrinsicsIdempotent
  /\ LowerMemOpsIdempotent
  /\ ReplaceBarrierIdempotent
  /\ RemoveUndefFuncCallsIdempotent

\* C23 as stated: no call of ReplaceUndefIntrinsic holds a store twice in
\* its dead store list, so that the loop that erases the dead stores erases
\* every store once and the stage never works on a freed instruction.
C23_Original ==
  /\ \A k \in DOMAIN dead_stores : ~ErasedTwice(dead_stores[k])
  /\ step = "RemoveUndefFuncCalls" => halt # "crashed"

\* The value v is the global g or a constant expression over it.
RefersTo(m, v, g) ==
  /\ v # NULL
  /\ \/ v = GlobalV(g)
     \/ v.k = "const" /\ v.id \in DOMAIN m.consts /\ UsesValue(m, v.id, GlobalV(g))

\* The instructions and the initializers of m that refer to the global g.
Referrers(m, g) ==
  {i \in DOMAIN m.insts :
     \E j \in DOMAIN m.insts[i].args : RefersTo(m, m.insts[i].args[j], g)}
    \cup {h \in DOMAIN m.globals : RefersTo(m, m.globals[h].init, g)}

\* C24 as stated: no instruction and no initializer of the module refers to
\* an ISEL that is no longer in the module, and no iteration of the loop of
\* RemoveISELs ends the process on a use of an erased ISEL.
C24_Original ==
  /\ \A g \in Range(ISELNames) \ DOMAIN globals : Referrers(gModule, g) = {}
  /\ step = "RemoveISELs scan" => halt # "crashed"

====
